---------------------------- MODULE Spec2Model ----------------------------
(***************************************************************************)
(* Model of the analytics aggregation layer of dashboard.py.               *)
(*                                                                         *)
(* Python values are modelled as follows.                                  *)
(*   - a str is a sequence of one-character strings, so that strip(),      *)
(*     lower(), startswith(), endswith(), `in` and the glob of             *)
(*     match_email_pattern are computed character by character;            *)
(*   - a dict is a function whose domain is the set of keys present, so    *)
(*     that d.get(k, default) distinguishes an absent key from a value;    *)
(*   - a list is a sequence;                                               *)
(*   - None / a value (Optional) is the empty sequence / a one-element     *)
(*     sequence;                                                           *)
(*   - a datetime is a record [date, time]: the calendar day and the time  *)
(*     of day, compared lexicographically; time is counted in units of     *)
(*     1/DayLen of a day.                                                  *)
(*   - a float is the exact rational it approximates, a record [num, den]  *)
(*     in lowest terms; the analysers read a timestamp as a number of      *)
(*     seconds;                                                            *)
(*   - a str on which no character operation is performed (a selectbox     *)
(*     choice, a model name, a label, an error message) is a TLA+ string.  *)
(***************************************************************************)
EXTENDS Integers, Sequences, FiniteSets, TLC

VARIABLES
    conversations,           \* the snapshot handed to filter_conversations
    date_filter,             \* argument: "Toutes" or a relative window
    user_filter,             \* argument: role filter
    specific_email,          \* argument: exact email (raw, not normalised)
    precise_date,            \* argument: None (<<>>) or <<day>>
    email_pattern,           \* argument: email pattern (raw)
    now,                     \* the reading of datetime.now() during the call
    pc,                      \* "call" before the call, "done" after it returned
    filtered_conversations,  \* local of filter_conversations after the date stage
    final_conversations,     \* first component of the returned pair
    questions_stats,         \* second component of the returned pair
    tested_email,            \* argument of match_email_pattern (raw)
    result,                  \* the function called last and the value it returned
    firestore,               \* the conversation documents of the database
    cache,                   \* the entry st.cache_data holds for the loader
    displayed,               \* what st.error and st.warning have put on the page
    locals                   \* the locals of the routine that is running

\* the database, the memoization and the page
backend == <<firestore, cache, displayed, locals>>

vars == <<conversations, date_filter, user_filter, specific_email, precise_date,
          email_pattern, now, pc, filtered_conversations, final_conversations,
          questions_stats, tested_email, result, backend>>

-----------------------------------------------------------------------------
(* Bounds of the model.                                                    *)

\* largest number of conversations in a snapshot
MaxConvs == 2
\* largest number of messages in a snapshot (over all its conversations)
MaxMsgs == 2
\* number of time units in a calendar day
DayLen == 2

-----------------------------------------------------------------------------
(* Python built-ins.                                                       *)

\* {} : the dict with no key
EmptyDict == [k \in {} |-> 0]

\* d.get(k, default)
Get(d, k, default) == IF k \in DOMAIN d THEN d[k] ELSE default

\* '' : the empty str
EmptyStr == <<>>

\* the characters str.strip() removes
Whitespace == {" ", "\n"}

\* str.lower() on one character
LowerChar(c) ==
    CASE c = "A" -> "a"
      [] c = "B" -> "b"
      [] c = "X" -> "x"
      [] c = "Y" -> "y"
      [] c = "Q" -> "q"
      [] OTHER -> c

\* s.lower()
Lower(s) == [i \in 1..Len(s) |-> LowerChar(s[i])]

RECURSIVE LStrip(_)
\* s.lstrip()
LStrip(s) ==
    IF s # <<>> /\ Head(s) \in Whitespace THEN LStrip(Tail(s)) ELSE s

RECURSIVE RStrip(_)
\* s.rstrip()
RStrip(s) ==
    IF s # <<>> /\ s[Len(s)] \in Whitespace
    THEN RStrip(SubSeq(s, 1, Len(s) - 1))
    ELSE s

\* s.strip()
Strip(s) == RStrip(LStrip(s))

\* s.startswith(p)
StartsWith(s, p) == Len(p) <= Len(s) /\ SubSeq(s, 1, Len(p)) = p

\* s.endswith(p)
EndsWith(s, p) ==
    Len(p) <= Len(s) /\ SubSeq(s, Len(s) - Len(p) + 1, Len(s)) = p

\* p in s  (substring test)
Contains(s, p) ==
    \E i \in 0..(Len(s) - Len(p)) : SubSeq(s, i + 1, i + Len(p)) = p

RECURSIVE ReMatchGlob_unanchored(_, _)
\* variant of ReMatchGlob: the regular expression has no final '$'
ReMatchGlob_unanchored(p, s) ==
    IF p = <<>> THEN TRUE
    ELSE IF Head(p) = "*"
         THEN \/ ReMatchGlob_unanchored(Tail(p), s)
              \/ (s # <<>> /\ Head(s) # "\n"
                    /\ ReMatchGlob_unanchored(p, Tail(s)))
         ELSE /\ s # <<>>
              /\ Head(s) = Head(p)
              /\ ReMatchGlob_unanchored(Tail(p), Tail(s))

RECURSIVE ReMatchGlob(_, _)
\* bool(re.match('^' + re.escape(p).replace('\\*', '.*') + '$', s)):
\* every character of p other than '*' is escaped and matches itself,
\* '*' became '.*' and matches any run of characters other than a line
\* break (the expression is compiled without re.DOTALL).  s is stripped, so
\* it does not end with a line break and '$' matches at its end only.
ReMatchGlob(p, s) ==
    IF p = <<>> THEN s = <<>>
    ELSE IF Head(p) = "*"
         THEN \/ ReMatchGlob(Tail(p), s)
              \/ (s # <<>> /\ Head(s) # "\n" /\ ReMatchGlob(p, Tail(s)))
         ELSE /\ s # <<>>
              /\ Head(s) = Head(p)
              /\ ReMatchGlob(Tail(p), Tail(s))

-----------------------------------------------------------------------------
(* match_email_pattern(email, pattern)                                     *)

\* variant of match_email_pattern: the test of an empty email is missing
match_email_pattern_no_email_guard(email, pattern) ==
    IF pattern = EmptyStr THEN TRUE
    ELSE LET p == Lower(Strip(pattern))
             e == Lower(Strip(email))
         IN  IF p = e THEN TRUE
             ELSE IF StartsWith(p, <<"@">>) THEN EndsWith(e, p)
             ELSE IF EndsWith(p, <<"@", "*">>)
                  THEN StartsWith(e, SubSeq(p, 1, Len(p) - 2) \o <<"@">>)
             ELSE IF StartsWith(p, <<"*", "@">>)
                  THEN EndsWith(e, SubSeq(p, 2, Len(p)))
             ELSE IF \E i \in 1..Len(p) : p[i] = "*" THEN ReMatchGlob(p, e)
             ELSE Contains(e, p)

\* variant of match_email_pattern: the empty email is tested before the empty
\* pattern
match_email_pattern_email_guard_first(email, pattern) ==
    IF email = EmptyStr THEN FALSE
    ELSE IF pattern = EmptyStr THEN TRUE
    ELSE LET p == Lower(Strip(pattern))
             e == Lower(Strip(email))
         IN  IF p = e THEN TRUE
             ELSE IF StartsWith(p, <<"@">>) THEN EndsWith(e, p)
             ELSE IF EndsWith(p, <<"@", "*">>)
                  THEN StartsWith(e, SubSeq(p, 1, Len(p) - 2) \o <<"@">>)
             ELSE IF StartsWith(p, <<"*", "@">>)
                  THEN EndsWith(e, SubSeq(p, 2, Len(p)))
             ELSE IF \E i \in 1..Len(p) : p[i] = "*" THEN ReMatchGlob(p, e)
             ELSE Contains(e, p)

\* variant of match_email_pattern: the 'user@*' rule is tried before the
\* '@domain' rule
match_email_pattern_prefix_rule_first(email, pattern) ==
    IF pattern = EmptyStr THEN TRUE
    ELSE IF email = EmptyStr THEN FALSE
    ELSE LET p == Lower(Strip(pattern))
             e == Lower(Strip(email))
         IN  IF p = e THEN TRUE
             ELSE IF EndsWith(p, <<"@", "*">>)
                  THEN StartsWith(e, SubSeq(p, 1, Len(p) - 2) \o <<"@">>)
             ELSE IF StartsWith(p, <<"@">>) THEN EndsWith(e, p)
             ELSE IF StartsWith(p, <<"*", "@">>)
                  THEN EndsWith(e, SubSeq(p, 2, Len(p)))
             ELSE IF \E i \in 1..Len(p) : p[i] = "*" THEN ReMatchGlob(p, e)
             ELSE Contains(e, p)

\* if not pattern: True; if not email: False; then, on the stripped and
\* lower-cased arguments, the first rule that applies decides
match_email_pattern(email, pattern) ==
    IF pattern = EmptyStr THEN TRUE
    ELSE IF email = EmptyStr THEN FALSE
    ELSE LET p == Lower(Strip(pattern))
             e == Lower(Strip(email))
         IN  IF p = e THEN TRUE
             ELSE IF StartsWith(p, <<"@">>) THEN EndsWith(e, p)
             ELSE IF EndsWith(p, <<"@", "*">>)
                  THEN StartsWith(e, SubSeq(p, 1, Len(p) - 2) \o <<"@">>)
             ELSE IF StartsWith(p, <<"*", "@">>)
                  THEN EndsWith(e, SubSeq(p, 2, Len(p)))
             ELSE IF \E i \in 1..Len(p) : p[i] = "*" THEN ReMatchGlob(p, e)
             ELSE Contains(e, p)

-----------------------------------------------------------------------------
(* datetime                                                                *)

\* datetime.fromtimestamp(ts): the calendar day and the time of day
FromTimestamp(ts) == [date |-> ts \div DayLen, time |-> ts % DayLen]

\* datetime.combine(d, t)
Combine(d, t) == [date |-> d, time |-> t]

\* a <= b on datetimes
DateTimeLE(a, b) == a.date < b.date \/ (a.date = b.date /\ a.time <= b.time)

\* dt - timedelta(days=n)
MinusDays(dt, n) == [date |-> dt.date - n, time |-> dt.time]

\* the dict of relative windows
days ==
    ("7 derniers jours" :> 7) @@ ("30 derniers jours" :> 30)
        @@ ("90 derniers jours" :> 90)

-----------------------------------------------------------------------------
(* filter_conversations: the date stage                                    *)

\* conv_date of the two date loops: None (<<>>) unless the conversation has a
\* first message that carries a 'timestamp' key
conv_date(conv) ==
    LET messages == Get(conv, "messages", <<>>)
    IN  IF messages # <<>> /\ "timestamp" \in DOMAIN messages[1]
        THEN <<FromTimestamp(messages[1]["timestamp"])>>
        ELSE <<>>

\* the loop of the precise_date branch
PreciseDateStage(convs, pdate) ==
    LET start_date == Combine(pdate, 0)
        end_date   == Combine(pdate, DayLen - 1)
        Keep(conv) ==
            LET cd == conv_date(conv)
            IN  /\ cd # <<>>
                /\ DateTimeLE(start_date, cd[1])
                /\ DateTimeLE(cd[1], end_date)
    IN  SelectSeq(convs, Keep)

\* variant of RelativeDateStage: a conversation without date is kept
RelativeDateStage_keep_undated(convs, dfilter, clock) ==
    LET cutoff_date == MinusDays(FromTimestamp(clock), days[dfilter])
        Keep(conv) ==
            LET cd == conv_date(conv)
            IN  cd = <<>> \/ DateTimeLE(cutoff_date, cd[1])
    IN  SelectSeq(convs, Keep)

\* the loop of the relative-window branch
RelativeDateStage(convs, dfilter, clock) ==
    LET cutoff_date == MinusDays(FromTimestamp(clock), days[dfilter])
        Keep(conv) ==
            LET cd == conv_date(conv)
            IN  cd # <<>> /\ DateTimeLE(cutoff_date, cd[1])
    IN  SelectSeq(convs, Keep)

\* variant of DateStage: the relative window is tested before precise_date
DateStage_window_first(convs, dfilter, pdate, clock) ==
    IF dfilter # "Toutes" THEN RelativeDateStage(convs, dfilter, clock)
    ELSE IF pdate # <<>> THEN PreciseDateStage(convs, pdate[1])
    ELSE convs

\* filtered_conversations after the if / elif on precise_date and date_filter
DateStage(convs, dfilter, pdate, clock) ==
    IF pdate # <<>> THEN PreciseDateStage(convs, pdate[1])
    ELSE IF dfilter # "Toutes" THEN RelativeDateStage(convs, dfilter, clock)
    ELSE convs

-----------------------------------------------------------------------------
(* filter_conversations: the message stage                                 *)

\* msg.get('question', '').strip() is truthy
HasQuestion(msg) == Strip(Get(msg, "question", EmptyStr)) # EmptyStr

\* variant of msg_user_id: falls back on metadata.user_info.user_id
msg_user_id_user_info_fallback(msg) ==
    LET metadata == Get(msg, "metadata", EmptyDict)
    IN  Get(metadata, "user_id",
            Get(Get(metadata, "user_info", EmptyDict), "user_id", 1))

\* msg_user_id
msg_user_id(msg) == Get(Get(msg, "metadata", EmptyDict), "user_id", 1)

\* variant of raw_msg_email: metadata.email is looked up first
raw_msg_email_metadata_first(msg) ==
    LET metadata  == Get(msg, "metadata", EmptyDict)
        user_info == Get(metadata, "user_info", EmptyDict)
        first     == Get(metadata, "email", EmptyStr)
        second    == IF first = EmptyStr
                     THEN Get(user_info, "user_email", EmptyStr) ELSE first
    IN  IF second = EmptyStr THEN Get(user_info, "email", EmptyStr) ELSE second

\* msg_email before normalisation: the three lookups, first truthy wins
raw_msg_email(msg) ==
    LET metadata  == Get(msg, "metadata", EmptyDict)
        user_info == Get(metadata, "user_info", EmptyDict)
        first     == Get(user_info, "user_email", EmptyStr)
        second    == IF first = EmptyStr
                     THEN Get(metadata, "email", EmptyStr) ELSE first
    IN  IF second = EmptyStr THEN Get(user_info, "email", EmptyStr) ELSE second

\* x.strip().lower() if x else ''
Normalize(x) == IF x # EmptyStr THEN Lower(Strip(x)) ELSE EmptyStr

\* msg_email
msg_email(msg) == Normalize(raw_msg_email(msg))

\* variant of should_include_filters: the admin branch forgets the exact email
should_include_filters_admin_any_email(msg, ufilter, semail) ==
    LET normalized_specific_email == Normalize(semail)
        EmailOk == ~(normalized_specific_email # EmptyStr
                     /\ msg_email(msg) # normalized_specific_email)
    IN  IF ufilter = "Email spécifique"
        THEN normalized_specific_email # EmptyStr
             /\ msg_email(msg) = normalized_specific_email
        ELSE IF ufilter = "Tous les utilisateurs" THEN EmailOk
        ELSE IF ufilter = "Admin (ID: 0)" /\ msg_user_id(msg) = 0 THEN TRUE
        ELSE IF ufilter = "Utilisateur (ID: 1)" /\ msg_user_id(msg) = 1
             THEN EmailOk
        ELSE FALSE

\* variant of should_include_filters: the user branch takes every non-admin
should_include_filters_user_non_zero(msg, ufilter, semail) ==
    LET normalized_specific_email == Normalize(semail)
        EmailOk == ~(normalized_specific_email # EmptyStr
                     /\ msg_email(msg) # normalized_specific_email)
    IN  IF ufilter = "Email spécifique"
        THEN normalized_specific_email # EmptyStr
             /\ msg_email(msg) = normalized_specific_email
        ELSE IF ufilter = "Tous les utilisateurs" THEN EmailOk
        ELSE IF ufilter = "Admin (ID: 0)" /\ msg_user_id(msg) = 0 THEN EmailOk
        ELSE IF ufilter = "Utilisateur (ID: 1)" /\ msg_user_id(msg) # 0
             THEN EmailOk
        ELSE FALSE

\* should_include after the if / elif chain on user_filter
should_include_filters(msg, ufilter, semail) ==
    LET normalized_specific_email == Normalize(semail)
        EmailOk == ~(normalized_specific_email # EmptyStr
                     /\ msg_email(msg) # normalized_specific_email)
    IN  IF ufilter = "Email spécifique"
        THEN normalized_specific_email # EmptyStr
             /\ msg_email(msg) = normalized_specific_email
        ELSE IF ufilter = "Tous les utilisateurs" THEN EmailOk
        ELSE IF ufilter = "Admin (ID: 0)" /\ msg_user_id(msg) = 0 THEN EmailOk
        ELSE IF ufilter = "Utilisateur (ID: 1)" /\ msg_user_id(msg) = 1
             THEN EmailOk
        ELSE FALSE

\* should_include after the email-pattern test
should_include(msg, ufilter, semail, pattern) ==
    IF should_include_filters(msg, ufilter, semail) /\ pattern # EmptyStr
    THEN match_email_pattern(msg_email(msg), pattern)
    ELSE should_include_filters(msg, ufilter, semail)

\* variant of MessageStep: a message without question is not kept
MessageStep_drop_blank(acc, msg, ufilter, semail, pattern) ==
    IF HasQuestion(msg)
    THEN LET counted ==
                 [acc EXCEPT
                     !.total_questions = @ + 1,
                     !.admin_questions =
                         IF msg_user_id(msg) = 0 THEN @ + 1 ELSE @,
                     !.user_questions =
                         IF msg_user_id(msg) = 0 THEN @ ELSE @ + 1]
         IN  IF should_include(msg, ufilter, semail, pattern)
             THEN [counted EXCEPT !.filtered_messages = Append(@, msg)]
             ELSE counted
    ELSE acc

\* variant of MessageStep: only the retained questions are counted
MessageStep_count_retained(acc, msg, ufilter, semail, pattern) ==
    IF HasQuestion(msg)
    THEN IF should_include(msg, ufilter, semail, pattern)
         THEN [acc EXCEPT
                  !.total_questions = @ + 1,
                  !.admin_questions =
                      IF msg_user_id(msg) = 0 THEN @ + 1 ELSE @,
                  !.user_questions =
                      IF msg_user_id(msg) = 0 THEN @ ELSE @ + 1,
                  !.filtered_messages = Append(@, msg)]
         ELSE acc
    ELSE [acc EXCEPT !.filtered_messages = Append(@, msg)]

\* one iteration of `for msg in messages`: acc holds filtered_messages and the
\* three counters
MessageStep(acc, msg, ufilter, semail, pattern) ==
    IF HasQuestion(msg)
    THEN LET counted ==
                 [acc EXCEPT
                     !.total_questions = @ + 1,
                     !.admin_questions =
                         IF msg_user_id(msg) = 0 THEN @ + 1 ELSE @,
                     !.user_questions =
                         IF msg_user_id(msg) = 0 THEN @ ELSE @ + 1]
         IN  IF should_include(msg, ufilter, semail, pattern)
             THEN [counted EXCEPT !.filtered_messages = Append(@, msg)]
             ELSE counted
    ELSE [acc EXCEPT !.filtered_messages = Append(@, msg)]

RECURSIVE MessageLoop(_, _, _, _, _)
\* `for msg in messages`
MessageLoop(acc, messages, ufilter, semail, pattern) ==
    IF messages = <<>> THEN acc
    ELSE MessageLoop(MessageStep(acc, Head(messages), ufilter, semail, pattern),
                     Tail(messages), ufilter, semail, pattern)

\* variant of ConversationStep: a conversation is appended whatever is left
ConversationStep_keep_empty(acc, conv, ufilter, semail, pattern) ==
    LET r == MessageLoop(
                 [filtered_messages |-> <<>>,
                  admin_questions   |-> acc.admin_questions,
                  user_questions    |-> acc.user_questions,
                  total_questions   |-> acc.total_questions],
                 Get(conv, "messages", <<>>), ufilter, semail, pattern)
    IN  [final_conversations |->
             Append(acc.final_conversations,
                    [conv EXCEPT !["messages"] = r.filtered_messages]),
         admin_questions |-> r.admin_questions,
         user_questions  |-> r.user_questions,
         total_questions |-> r.total_questions]

\* one iteration of `for conv in filtered_conversations`: acc holds
\* final_conversations and the three counters
ConversationStep(acc, conv, ufilter, semail, pattern) ==
    LET r == MessageLoop(
                 [filtered_messages |-> <<>>,
                  admin_questions   |-> acc.admin_questions,
                  user_questions    |-> acc.user_questions,
                  total_questions   |-> acc.total_questions],
                 Get(conv, "messages", <<>>), ufilter, semail, pattern)
    IN  [final_conversations |->
             IF r.filtered_messages # <<>>
             THEN Append(acc.final_conversations,
                         [conv EXCEPT !["messages"] = r.filtered_messages])
             ELSE acc.final_conversations,
         admin_questions |-> r.admin_questions,
         user_questions  |-> r.user_questions,
         total_questions |-> r.total_questions]

RECURSIVE ConversationLoop(_, _, _, _, _)
\* `for conv in filtered_conversations`
ConversationLoop(acc, convs, ufilter, semail, pattern) ==
    IF convs = <<>> THEN acc
    ELSE ConversationLoop(
             ConversationStep(acc, Head(convs), ufilter, semail, pattern),
             Tail(convs), ufilter, semail, pattern)

\* the value filter_conversations returns, with its local filtered_conversations
filter_conversations(convs, dfilter, ufilter, semail, pdate, pattern, clock) ==
    IF convs = <<>>
    THEN [filtered_conversations |-> <<>>,
          final_conversations    |-> <<>>,
          questions_stats        |-> EmptyDict]
    ELSE LET dated == DateStage(convs, dfilter, pdate, clock)
             r == ConversationLoop(
                      [final_conversations |-> <<>>,
                       admin_questions |-> 0,
                       user_questions  |-> 0,
                       total_questions |-> 0],
                      dated, ufilter, semail, pattern)
         IN  [filtered_conversations |-> dated,
              final_conversations    |-> r.final_conversations,
              questions_stats        |->
                  [admin_questions |-> r.admin_questions,
                   user_questions  |-> r.user_questions,
                   total_questions |-> r.total_questions]]

-----------------------------------------------------------------------------
(* The inputs the specifications draw from.                                *)

\* the message dicts with every combination of a 'question' part, a
\* 'timestamp' part and a 'metadata' part (EmptyDict: the key is absent)
Messages(questionParts, timestampParts, metadataParts) ==
    {q @@ t @@ m : q \in questionParts, t \in timestampParts,
                   m \in metadataParts}

\* the 'metadata' parts with every combination of user_id, email and user_info
Metadatas(userIdParts, emailParts, userInfoParts) ==
    {[metadata |-> u @@ e @@ i] :
        u \in userIdParts, e \in emailParts, i \in userInfoParts}

\* load_conversations_from_firebase sorts each message list by
\* x.get('timestamp', 0)
SortedByTimestamp(messages) ==
    \A i \in 1..(Len(messages) - 1) :
        Get(messages[i], "timestamp", 0) <= Get(messages[i + 1], "timestamp", 0)

\* the message lists of exactly n messages of U a loaded conversation can hold
MessageLists(U, n) == {ms \in [1..n -> U] : SortedByTimestamp(ms)}

RECURSIVE MessageListSeqs(_, _, _)
\* the sequences of k message lists over U that hold at most m messages in all
MessageListSeqs(U, k, m) ==
    IF k = 0 THEN {<<>>}
    ELSE UNION {{<<first>> \o rest :
                    first \in MessageLists(U, j),
                    rest \in MessageListSeqs(U, k - 1, m - j)} : j \in 0..m}

\* the conversation dict load_conversations_from_firebase builds
Conversation(id, messages) ==
    [id |-> id, metadata |-> EmptyDict, messages |-> messages]

\* the snapshots of at most MaxConvs conversations and MaxMsgs messages over U
Snapshots(U) ==
    UNION {{[i \in 1..k |-> Conversation(i, lists[i])] :
               lists \in MessageListSeqs(U, k, MaxMsgs)} : k \in 0..MaxConvs}

\* the snapshots of one conversation of one message over U
SingleMessageSnapshots(U) == {<<Conversation(1, <<m>>)>> : m \in U}

\* the choices of the role selectbox, and the fourth value the function tests
UserFilters ==
    {"Tous les utilisateurs", "Admin (ID: 0)", "Utilisateur (ID: 1)",
     "Email spécifique"}

\* the choices of the relative-window selectbox
DateFilters == {"Toutes"} \cup DOMAIN days

\* the clock reading of the call: day 100, one time unit after midnight
NowValues == {100 * DayLen + 1}

\* the day on which the 7-day window of that clock reading starts
ProbeDay ==
    CHOOSE d \in {(n \div DayLen) - days["7 derniers jours"] : n \in NowValues} :
        TRUE

\* timestamps on both sides of each window's cutoff and of both ends of ProbeDay
ProbeTimestamps ==
    {n - days[w] * DayLen - e : n \in NowValues, w \in DOMAIN days, e \in {0, 1}}
        \cup {ProbeDay * DayLen - 1, ProbeDay * DayLen,
              ProbeDay * DayLen + DayLen - 1, ProbeDay * DayLen + DayLen}

\* 'question' parts: key absent, whitespace only, a real question
QuestionParts ==
    {EmptyDict, [question |-> <<" ">>], [question |-> <<"q", " ">>]}

-----------------------------------------------------------------------------
(* The call of filter_conversations.                                       *)

\* the value of result before any of the other functions has been called
NoResult == [fn |-> "none"]

\* the collection is in memory and the database plays no part: no document
\* is read, nothing is memoized, nothing is on the page, no routine runs
NoBackend ==
    /\ firestore = <<>>
    /\ cache = <<>>
    /\ displayed = <<>>
    /\ locals = EmptyDict

\* before the call: the arguments are drawn, nothing is computed yet
InitCall(snapshots, dateFilters, userFilters, emails, dates, patterns) ==
    /\ conversations \in snapshots
    /\ date_filter \in dateFilters
    /\ user_filter \in userFilters
    /\ specific_email \in emails
    /\ precise_date \in dates
    /\ email_pattern \in patterns
    /\ now \in NowValues
    /\ pc = "call"
    /\ filtered_conversations = <<>>
    /\ final_conversations = <<>>
    /\ questions_stats = EmptyDict
    /\ tested_email = EmptyStr
    /\ result = NoResult
    /\ NoBackend

\* filtered_conversations, questions_stats = filter_conversations(...)
FilterConversations ==
    /\ pc = "call"
    /\ LET r == filter_conversations(conversations, date_filter, user_filter,
                                     specific_email, precise_date,
                                     email_pattern, now)
       IN  /\ filtered_conversations' = r.filtered_conversations
           /\ final_conversations' = r.final_conversations
           /\ questions_stats' = r.questions_stats
    /\ pc' = "done"
    /\ UNCHANGED backend
    /\ UNCHANGED <<conversations, date_filter, user_filter, specific_email,
                   precise_date, email_pattern, now, tested_email, result>>

Next == FilterConversations

-----------------------------------------------------------------------------
(* Specifications.                                                         *)

\* messages that differ in question, role, email and the side of ProbeDay's end
StructureMessages ==
    Messages({[question |-> <<" ">>], [question |-> <<"q", " ">>]},
             {[timestamp |-> ProbeDay * DayLen],
              [timestamp |-> ProbeDay * DayLen + DayLen]},
             {EmptyDict, [metadata |-> [user_id |-> 0]],
              [metadata |-> [user_id |-> 0, email |-> <<"A", "@", "x">>]]})

\* snapshots of several conversations, filtered by day, role, email and pattern
Init ==
    InitCall(Snapshots(StructureMessages),
             {"Toutes"},
             {"Tous les utilisateurs", "Admin (ID: 0)", "Utilisateur (ID: 1)"},
             {EmptyStr, <<"a", "@", "X">>},
             {<<>>, <<ProbeDay>>},
             {EmptyStr, <<"@", "x">>})

Spec == Init /\ [][Next]_vars

\* messages that differ in the timestamp, or have none
DateMessages ==
    Messages({[question |-> <<"q", " ">>]},
             {EmptyDict} \cup {[timestamp |-> t] : t \in ProbeTimestamps},
             {EmptyDict})

\* snapshots of several conversations, filtered by every date criterion
InitDate ==
    InitCall(Snapshots(DateMessages),
             DateFilters,
             {"Tous les utilisateurs", "Admin (ID: 0)"},
             {EmptyStr},
             {<<>>, <<ProbeDay>>, <<ProbeDay + 1>>},
             {EmptyStr})

SpecDate == InitDate /\ [][Next]_vars

\* messages that differ in every field the role and email lookups read
FieldMessages ==
    Messages(QuestionParts,
             {EmptyDict},
             Metadatas({EmptyDict, [user_id |-> 0], [user_id |-> 1],
                        [user_id |-> 2]},
                       {EmptyDict, [email |-> <<"b", "@", "y">>]},
                       {EmptyDict} \cup
                       {[user_info |-> i @@ e @@ f] :
                           i \in {EmptyDict, [user_id |-> 0]},
                           e \in {EmptyDict, [user_email |-> <<" ">>],
                                  [user_email |-> <<" ", "A", "@", "x">>]},
                           f \in {EmptyDict, [email |-> <<"a", "@", "y">>]}}))

\* one message, filtered by every role, exact email and pattern
InitFields ==
    InitCall(SingleMessageSnapshots(FieldMessages),
             {"Toutes"},
             UserFilters,
             {EmptyStr, <<" ">>, <<"A", "@", "X", " ">>, <<"b", "@", "y">>},
             {<<>>},
             {EmptyStr, <<" ">>, <<"@", "X">>, <<"b", "@", "*">>,
              <<"*", "@", "y">>})

SpecFields == InitFields /\ [][Next]_vars

\* questions and blank messages of an admin, of a user, of a role 2 and of no
\* stated role
RoleMessages ==
    Messages({[question |-> <<"q">>], [question |-> <<" ">>]},
             {EmptyDict},
             {EmptyDict, [metadata |-> [user_id |-> 0]],
              [metadata |-> [user_id |-> 1]], [metadata |-> [user_id |-> 2]]})

\* snapshots of several conversations, filtered by role alone
InitRoles ==
    InitCall(Snapshots(RoleMessages),
             {"Toutes"},
             {"Admin (ID: 0)", "Utilisateur (ID: 1)"},
             {EmptyStr},
             {<<>>},
             {EmptyStr})

SpecRoles == InitRoles /\ [][Next]_vars

-----------------------------------------------------------------------------
(* The call of match_email_pattern.                                        *)

\* emails: empty, blank, not normalised, with and without a domain, one with
\* a line break inside, and the addresses of the documented examples
TestedEmails ==
    {EmptyStr, <<" ">>, <<"a", "@", "x">>, <<" ", "A", "@", "X">>,
     <<"b", "@", "x">>, <<"x", "@", "a">>, <<"@", "x">>, <<"a", "x">>,
     <<"a", "\n", "x">>,
     <<"a", "@", "b", ".", "c", "o", "m">>,
     <<"x", "@", "b", ".", "c", "o", "m">>,
     <<"a", "@", "g", "m", "a", "i", "l", ".", "c", "o", "m">>}

\* patterns: empty, blank, one or several of the special forms at once,
\* general wildcards, plain substrings, and the documented examples
TestedPatterns ==
    {EmptyStr, <<" ">>, <<"a", "@", "x">>, <<"@", "x">>, <<"@", "X", " ">>,
     <<"a", "@", "*">>, <<"x", "@", "*">>, <<"*", "@", "x">>, <<"@", "*">>,
     <<"*", "@", "*">>, <<"*">>, <<"a", "*", "x">>, <<"a", "*">>,
     <<"*", "x">>, <<"a", "*", "@", "x">>, <<"*", "a", "*">>,
     <<"a">>, <<"x">>, <<"b", ".", "c">>, <<"A", "x">>,
     <<"@", "b", ".", "c", "o", "m">>,
     <<"*", "@", "g", "m", "a", "i", "l", ".", "c", "o", "m">>}

\* before the call of match_email_pattern
InitMatch ==
    /\ tested_email \in TestedEmails
    /\ email_pattern \in TestedPatterns
    /\ pc = "call"
    /\ result = NoResult
    /\ NoBackend
    /\ conversations = <<>>
    /\ date_filter = "Toutes"
    /\ user_filter = "Tous les utilisateurs"
    /\ specific_email = EmptyStr
    /\ precise_date = <<>>
    /\ now \in NowValues
    /\ filtered_conversations = <<>>
    /\ final_conversations = <<>>
    /\ questions_stats = EmptyDict

\* match_email_pattern(email, pattern)
MatchEmailPattern ==
    /\ pc = "call"
    /\ result' = [fn |-> "match_email_pattern",
                  value |-> match_email_pattern(tested_email, email_pattern)]
    /\ pc' = "done"
    /\ UNCHANGED backend
    /\ UNCHANGED <<conversations, date_filter, user_filter, specific_email,
                   precise_date, email_pattern, now, tested_email,
                   filtered_conversations, final_conversations,
                   questions_stats>>

NextMatch == MatchEmailPattern

SpecMatch == InitMatch /\ [][NextMatch]_vars

-----------------------------------------------------------------------------
(* Numbers.  A float is modelled by the exact rational it approximates: a  *)
(* record [num, den] in lowest terms with den > 0.                         *)

\* abs(n)
Abs(n) == IF n < 0 THEN -n ELSE n

RECURSIVE GCD(_, _)
\* the greatest common divisor of two naturals, not both 0
GCD(a, b) == IF b = 0 THEN a ELSE GCD(b, a % b)

\* n / d for an int n and an int d > 0
Quotient(n, d) ==
    LET g == GCD(Abs(n), d) IN [num |-> n \div g, den |-> d \div g]

\* the float of an int
Float(n) == Quotient(n, 1)

\* x + y
Plus(x, y) == Quotient(x.num * y.den + y.num * x.den, x.den * y.den)

\* x / n for an int n > 0
Over(x, n) == Quotient(x.num, x.den * n)

\* x < y
Less(x, y) == x.num * y.den < y.num * x.den

\* max(a, b) and min(a, b) of two ints
Max2(a, b) == IF b > a THEN b ELSE a
Min2(a, b) == IF b < a THEN b ELSE a

-----------------------------------------------------------------------------
(* analyze_conversations(conversations)                                    *)

\* valid_messages = [msg for msg in messages if msg.get('question', '').strip()]
valid_messages(messages) == SelectSeq(messages, HasQuestion)

\* bool(msg.get('docs')): the key is present and its list is not empty
has_docs(msg) == Get(msg, "docs", <<>>) # <<>>

\* the dict built for one valid message in the conversation lists
QuestionData(msg) ==
    [question  |-> Get(msg, "question", EmptyStr),
     timestamp |-> Get(msg, "timestamp", 0),
     modele    |-> Get(msg, "modele", "unknown"),
     has_docs  |-> has_docs(msg)]

\* variant of BucketStep: a conversation is long from 4 valid messages on
BucketStep_long_above_three(stats, message_count) ==
    LET total == [stats EXCEPT !.total_messages = @ + message_count]
    IN  IF message_count = 0
        THEN [total EXCEPT !.empty_conversations = @ + 1]
        ELSE IF message_count = 1
        THEN [total EXCEPT !.single_question = @ + 1]
        ELSE IF message_count > 3
        THEN [total EXCEPT !.multi_questions = @ + 1,
                           !.long_conversations = @ + 1]
        ELSE [total EXCEPT !.multi_questions = @ + 1]

\* the counters after one iteration of `for conv in conversations`
BucketStep(stats, message_count) ==
    LET total == [stats EXCEPT !.total_messages = @ + message_count]
    IN  IF message_count = 0
        THEN [total EXCEPT !.empty_conversations = @ + 1]
        ELSE IF message_count = 1
        THEN [total EXCEPT !.single_question = @ + 1]
        ELSE IF message_count >= 3
        THEN [total EXCEPT !.multi_questions = @ + 1,
                           !.long_conversations = @ + 1]
        ELSE [total EXCEPT !.multi_questions = @ + 1]

\* variant of MinMaxStep: a conversation without valid message takes part too
MinMaxStep_with_empty(stats, message_count) ==
    [stats EXCEPT
        !.max_messages = Max2(@, message_count),
        !.min_messages = IF @ = <<>> THEN <<message_count>>
                         ELSE <<Min2(@[1], message_count)>>]

\* max_messages and min_messages after one iteration; float('inf') is <<>>
\* and a count n is <<n>>
MinMaxStep(stats, message_count) ==
    IF message_count > 0
    THEN [stats EXCEPT
             !.max_messages = Max2(@, message_count),
             !.min_messages = IF @ = <<>> THEN <<message_count>>
                              ELSE <<Min2(@[1], message_count)>>]
    ELSE stats

\* conversation_stats after one iteration
ListStep(conversation_stats, conv, valid) ==
    LET message_count == Len(valid)
        head == [id       |-> conv["id"],
                 metadata |-> Get(conv, "metadata", EmptyDict)]
        conv_data ==
            head @@ [message_count  |-> message_count,
                     questions      |-> [i \in 1..message_count |->
                                            QuestionData(valid[i])],
                     first_question |-> Get(valid[1], "question", EmptyStr),
                     last_question  |->
                         Get(valid[message_count], "question", EmptyStr)]
    IN  IF message_count = 0
        THEN [conversation_stats EXCEPT
                 !.empty_conversations =
                     Append(@, head @@ [message_count |-> 0])]
        ELSE IF message_count = 1
        THEN [conversation_stats EXCEPT
                 !.single_question =
                     Append(@, head @@ [message_count |-> 1]
                                    @@ QuestionData(valid[1]))]
        ELSE IF message_count >= 3
        THEN [conversation_stats EXCEPT
                 !.multi_questions = Append(@, conv_data),
                 !.long_conversations = Append(@, conv_data)]
        ELSE [conversation_stats EXCEPT
                 !.multi_questions = Append(@, conv_data)]

\* one iteration of `for conv in conversations`: acc holds stats and
\* conversation_stats
AnalyzeStep(acc, conv) ==
    LET valid == valid_messages(Get(conv, "messages", <<>>))
    IN  [stats |-> MinMaxStep(BucketStep(acc.stats, Len(valid)), Len(valid)),
         conversations |-> ListStep(acc.conversations, conv, valid)]

RECURSIVE AnalyzeLoop(_, _)
\* `for conv in conversations`
AnalyzeLoop(acc, convs) ==
    IF convs = <<>> THEN acc
    ELSE AnalyzeLoop(AnalyzeStep(acc, Head(convs)), Tail(convs))

\* the dict analyze_conversations returns
analyze_conversations(convs) ==
    IF convs = <<>>
    THEN [error |-> "Aucune conversation trouvée",
          stats |-> [total_conversations   |-> 0,
                     single_question       |-> 0,
                     multi_questions       |-> 0,
                     avg_messages_per_conv |-> Float(0),
                     max_messages          |-> 0,
                     min_messages          |-> 0]]
    ELSE LET r == AnalyzeLoop(
                      [stats |-> [total_conversations   |-> Len(convs),
                                  single_question       |-> 0,
                                  multi_questions       |-> 0,
                                  long_conversations    |-> 0,
                                  empty_conversations   |-> 0,
                                  total_messages        |-> 0,
                                  avg_messages_per_conv |-> Float(0),
                                  max_messages          |-> 0,
                                  min_messages          |-> <<>>],
                       conversations |-> [single_question     |-> <<>>,
                                          multi_questions     |-> <<>>,
                                          long_conversations  |-> <<>>,
                                          empty_conversations |-> <<>>]],
                      convs)
         IN  [stats |->
                  [r.stats EXCEPT
                      !.avg_messages_per_conv =
                          IF r.stats.total_conversations > 0
                          THEN Quotient(r.stats.total_messages,
                                        r.stats.total_conversations)
                          ELSE @,
                      !.min_messages = IF @ = <<>> THEN 0 ELSE @[1]],
              conversations |-> r.conversations]

-----------------------------------------------------------------------------
(* More Python built-ins.                                                  *)

\* variant of Sort: the list is left in the order it has
Sort_as_given(s) == s

RECURSIVE Sort(_)
\* s.sort() on a list of ints: ascending
Sort(s) ==
    IF s = <<>> THEN <<>>
    ELSE LET rest == Sort(SubSeq(s, 1, Len(s) - 1))
             x == s[Len(s)]
             k == Cardinality({i \in 1..Len(rest) : rest[i] <= x})
         IN  SubSeq(rest, 1, k) \o <<x>> \o SubSeq(rest, k + 1, Len(rest))

RECURSIVE SortedDescending(_, _)
\* sorted(s, key=lambda x: x[key], reverse=True) on a list of dicts: the
\* sort is stable, equal keys stay in the order they had
SortedDescending(s, key) ==
    IF s = <<>> THEN <<>>
    ELSE LET rest == SortedDescending(SubSeq(s, 1, Len(s) - 1), key)
             x == s[Len(s)]
             k == Cardinality({i \in 1..Len(rest) : rest[i][key] >= x[key]})
         IN  SubSeq(rest, 1, k) \o <<x>> \o SubSeq(rest, k + 1, Len(rest))

RECURSIVE Sum(_)
\* sum(s) of a list of floats
Sum(s) == IF s = <<>> THEN Float(0) ELSE Plus(Head(s), Sum(Tail(s)))

RECURSIVE SumInt(_)
\* sum(s) of a list of ints
SumInt(s) == IF s = <<>> THEN 0 ELSE Head(s) + SumInt(Tail(s))

\* max(s) and min(s) of a non-empty list of floats
MaxOf(s) == s[CHOOSE i \in 1..Len(s) : \A j \in 1..Len(s) : ~Less(s[i], s[j])]
MinOf(s) == s[CHOOSE i \in 1..Len(s) : \A j \in 1..Len(s) : ~Less(s[j], s[i])]

\* x // 1 as an int: the floor of a float
Floor(x) == x.num \div x.den

\* int(x): the float truncated towards 0
Trunc(x) == IF x.num >= 0 THEN x.num \div x.den ELSE -((-x.num) \div x.den)

RECURSIVE Str(_)
\* str(n) of an int: its decimal digits
Str(n) ==
    IF n < 0 THEN <<"-">> \o Str(-n)
    ELSE IF n < 10
    THEN <<(<<"0", "1", "2", "3", "4", "5", "6", "7", "8", "9">>)[n + 1]>>
    ELSE Str(n \div 10) \o Str(n % 10)

-----------------------------------------------------------------------------
(* get_conversation_duration_stats(conversations)                          *)

\* variant of UsableTimestamps: only negative timestamps are discarded
UsableTimestamps_zero_kept(valid) ==
    LET timestamps == [i \in 1..Len(valid) |-> Get(valid[i], "timestamp", 0)]
        usable(ts) == ts >= 0
    IN  SelectSeq(timestamps, usable)

\* the timestamps of the valid messages, 0 for a message without one, of
\* which those > 0 are kept, in the order of the messages
UsableTimestamps(valid) ==
    LET timestamps == [i \in 1..Len(valid) |-> Get(valid[i], "timestamp", 0)]
        usable(ts) == ts > 0
    IN  SelectSeq(timestamps, usable)

\* the f-string of avg_duration_readable
avg_duration_readable(avg_duration) ==
    IF Less(Float(60), avg_duration)
    THEN Str(Floor(Over(avg_duration, 60))) \o <<"h", " ">>
             \o Str(Floor(avg_duration) % 60) \o <<"m">>
    ELSE Str(Trunc(avg_duration)) \o <<"m">>

\* one iteration of `for conv in conversations`
DurationStep(duration_stats, conv) ==
    LET valid == valid_messages(Get(conv, "messages", <<>>))
        timestamps == Sort(UsableTimestamps(valid))
        duration_seconds == timestamps[Len(timestamps)] - timestamps[1]
        duration_minutes == Quotient(duration_seconds, 60)
    IN  IF Len(valid) > 1 /\ Len(timestamps) > 1
        THEN Append(duration_stats,
                    [id               |-> conv["id"],
                     message_count    |-> Len(valid),
                     duration_seconds |-> duration_seconds,
                     duration_minutes |-> duration_minutes,
                     duration_hours   |-> Over(duration_minutes, 60),
                     first_timestamp  |-> timestamps[1],
                     last_timestamp   |-> timestamps[Len(timestamps)]])
        ELSE duration_stats

RECURSIVE DurationLoop(_, _)
\* `for conv in conversations`
DurationLoop(duration_stats, convs) ==
    IF convs = <<>> THEN duration_stats
    ELSE DurationLoop(DurationStep(duration_stats, Head(convs)), Tail(convs))

\* the dict get_conversation_duration_stats returns
get_conversation_duration_stats(convs) ==
    IF convs = <<>>
    THEN [error |-> "Aucune conversation trouvée"]
    ELSE LET duration_stats == DurationLoop(<<>>, convs)
             durations_minutes ==
                 [i \in 1..Len(duration_stats) |->
                     duration_stats[i].duration_minutes]
             avg_duration == Over(Sum(durations_minutes), Len(duration_stats))
         IN  IF duration_stats # <<>>
             THEN [conversations |-> duration_stats,
                   summary |->
                       [count                 |-> Len(duration_stats),
                        avg_duration_minutes  |-> avg_duration,
                        max_duration_minutes  |-> MaxOf(durations_minutes),
                        min_duration_minutes  |-> MinOf(durations_minutes),
                        avg_duration_readable |->
                            avg_duration_readable(avg_duration)]]
             ELSE [conversations |-> <<>>, summary |-> [count |-> 0]]

-----------------------------------------------------------------------------
(* analyze_conversation_pattern(messages)                                  *)

\* variant of analyze_conversation_pattern: the first and the last flag are
\* compared before the flags are tested all together
analyze_conversation_pattern_ends_first(messages) ==
    LET docs_pattern == [i \in 1..Len(messages) |-> has_docs(messages[i])]
        last == docs_pattern[Len(docs_pattern)]
    IN  IF docs_pattern # <<>> /\ docs_pattern[1] /\ ~last
        THEN "Analyse → Recherche"
        ELSE IF docs_pattern # <<>> /\ ~docs_pattern[1] /\ last
        THEN "Recherche → Analyse"
        ELSE IF docs_pattern # <<>> /\ docs_pattern[1]
        THEN "Analyse pure (uniquement documents)"
        ELSE "Recherche pure (aucun document)"

\* the label of the list of has-documents flags of the messages
analyze_conversation_pattern(messages) ==
    LET docs_pattern == [i \in 1..Len(messages) |-> has_docs(messages[i])]
        last == docs_pattern[Len(docs_pattern)]
    IN  IF \A i \in 1..Len(docs_pattern) : docs_pattern[i]
        THEN "Analyse pure (uniquement documents)"
        ELSE IF ~\E i \in 1..Len(docs_pattern) : docs_pattern[i]
        THEN "Recherche pure (aucun document)"
        ELSE IF docs_pattern[1] /\ ~last
        THEN "Analyse → Recherche"
        ELSE IF ~docs_pattern[1] /\ last
        THEN "Recherche → Analyse"
        ELSE "Analyse mixte"

-----------------------------------------------------------------------------
(* analyze_long_conversations(conversations)                               *)

\* list(set(models)): the models without repetition, in the order in which
\* the interpreter iterates over the set; `order` lists every model name in
\* the order of that run
UniqueModels(models, order) ==
    LET used(m) == \E i \in 1..Len(models) : models[i] = m
    IN  SelectSeq(order, used)

\* variant of Intervals: every interval is measured from the first timestamp
Intervals_from_first(timestamps) ==
    [i \in 1..(Len(timestamps) - 1) |->
        Quotient(timestamps[i + 1] - timestamps[1], 60)]

\* the float intervals, in minutes, between adjacent sorted timestamps
Intervals(timestamps) ==
    [i \in 1..(Len(timestamps) - 1) |->
        Quotient(timestamps[i + 1] - timestamps[i], 60)]

\* the local `intervals` of the iteration for conv
ConversationIntervals(conv) ==
    Intervals(Sort(UsableTimestamps(
        valid_messages(Get(conv, "messages", <<>>)))))

\* the dict built for one valid message of a long conversation
LongQuestionData(msg) ==
    QuestionData(msg) @@ [docs_count |-> Len(Get(msg, "docs", <<>>))]

\* one iteration of `for conv in conversations`
LongStep(long_conversations, conv, order) ==
    LET valid == valid_messages(Get(conv, "messages", <<>>))
        timestamps == Sort(UsableTimestamps(valid))
        intervals == ConversationIntervals(conv)
        docs_count == Cardinality({i \in 1..Len(valid) : has_docs(valid[i])})
        models_used == [i \in 1..Len(valid) |->
                           Get(valid[i], "modele", "unknown")]
        unique_models == UniqueModels(models_used, order)
    IN  IF Len(valid) >= 3
        THEN Append(long_conversations,
                 [id |-> conv["id"],
                  message_count |-> Len(valid),
                  duration_minutes |->
                      IF Len(timestamps) > 1
                      THEN Quotient(timestamps[Len(timestamps)] - timestamps[1],
                                    60)
                      ELSE Float(0),
                  avg_interval_minutes |->
                      IF intervals # <<>>
                      THEN Over(Sum(intervals), Len(intervals)) ELSE Float(0),
                  max_interval_minutes |->
                      IF intervals # <<>> THEN MaxOf(intervals) ELSE Float(0),
                  min_interval_minutes |->
                      IF intervals # <<>> THEN MinOf(intervals) ELSE Float(0),
                  docs_usage_count |-> docs_count,
                  docs_usage_percentage |->
                      Quotient(docs_count * 100, Len(valid)),
                  models_used |-> unique_models,
                  model_switches |-> Len(unique_models) - 1,
                  questions |-> [i \in 1..Len(valid) |->
                                    LongQuestionData(valid[i])],
                  conversation_pattern |->
                      analyze_conversation_pattern(valid)])
        ELSE long_conversations

RECURSIVE LongLoop(_, _, _)
\* `for conv in conversations`
LongLoop(long_conversations, convs, order) ==
    IF convs = <<>> THEN long_conversations
    ELSE LongLoop(LongStep(long_conversations, Head(convs), order),
                  Tail(convs), order)

RECURSIVE CountModels(_, _)
\* model_counts after `for model in conv["models_used"]` over the models
\* given: the dict as the list of its items in insertion order
CountModels(model_counts, models) ==
    IF models = <<>> THEN model_counts
    ELSE LET model == Head(models)
             at == {i \in 1..Len(model_counts) : model_counts[i].model = model}
         IN  CountModels(
                 IF at = {}
                 THEN Append(model_counts, [model |-> model, count |-> 1])
                 ELSE [i \in 1..Len(model_counts) |->
                          IF i \in at
                          THEN [model_counts[i] EXCEPT !.count = @ + 1]
                          ELSE model_counts[i]],
                 Tail(models))

RECURSIVE ModelsOf(_)
\* the models of the conversations one after the other, as the two nested
\* loops of get_most_used_models visit them
ModelsOf(long_conversations) ==
    IF long_conversations = <<>> THEN <<>>
    ELSE Head(long_conversations).models_used
             \o ModelsOf(Tail(long_conversations))

\* get_most_used_models(conversations): the three first (model, count) of
\* the items sorted by decreasing count
get_most_used_models(long_conversations) ==
    LET items == SortedDescending(
                     CountModels(<<>>, ModelsOf(long_conversations)), "count")
    IN  [i \in 1..Min2(3, Len(items)) |-> <<items[i].model, items[i].count>>]

\* the dict analyze_long_conversations returns
analyze_long_conversations(convs, order) ==
    IF convs = <<>>
    THEN [error |-> "Aucune conversation trouvée"]
    ELSE LET long_conversations == LongLoop(<<>>, convs, order)
             n == Len(long_conversations)
             field(name) == [i \in 1..n |-> long_conversations[i][name]]
         IN  [conversations |->
                  SortedDescending(long_conversations, "message_count"),
              summary |->
                  IF long_conversations # <<>>
                  THEN [total_count |-> n,
                        avg_length |->
                            Quotient(SumInt(field("message_count")), n),
                        max_length |->
                            CHOOSE m \in {field("message_count")[i] :
                                             i \in 1..n} :
                                \A i \in 1..n : field("message_count")[i] <= m,
                        avg_duration |->
                            Over(Sum(field("duration_minutes")), n),
                        avg_docs_usage |->
                            Over(Sum(field("docs_usage_percentage")), n),
                        most_active_models |->
                            get_most_used_models(long_conversations)]
                  ELSE [total_count |-> 0]]

-----------------------------------------------------------------------------
(* calculate_total_cost(conversations)                                     *)

\* A value of metadata.cout is modelled with its type, which the function
\* inspects: [type |-> "int", value |-> n], [type |-> "float", value |-> n],
\* [type |-> "NoneType"] or [type |-> "str"].  A key that is absent reads as
\* the int 0.  cout itself is a dict of such values, or a value that is not
\* a dict.
IsNumber(v) == v.type \in {"int", "float"}

\* isinstance(cout, dict)
IsDict(cout) == "type" \notin DOMAIN cout

\* one iteration of `for message in conv['messages']` with the display
\* total taking the cost of every model
CostStep_excluded_counted(acc, message) ==
    LET metadata == Get(message, "metadata", EmptyDict)
        modele == Get(message, "modele", "unknown")
        cout == Get(metadata, "cout", EmptyDict)
        prix == Get(cout, "prix", [type |-> "int", value |-> 0])
        tokens == Get(cout, "tokens", [type |-> "int", value |-> 0])
    IN  IF acc.raised \/ ~IsDict(cout) THEN acc
        ELSE IF ~IsNumber(prix) \/ ~IsNumber(tokens)
        THEN [acc EXCEPT !.raised = TRUE]
        ELSE [raised |-> FALSE,
              total_cost |-> Plus(acc.total_cost, Float(prix.value)),
              total_tokens |-> acc.total_tokens + tokens.value,
              model_costs |->
                  (modele :> Plus(Get(acc.model_costs, modele, Float(0)),
                                  Float(prix.value))) @@ acc.model_costs,
              model_tokens |->
                  (modele :> Get(acc.model_tokens, modele, 0) + tokens.value)
                      @@ acc.model_tokens]

\* one iteration of `for message in conv['messages']`; acc holds the four
\* results and whether a TypeError was raised.  A cout that is not a dict
\* is skipped.  Otherwise the guarded additions of lines 939-944 take a
\* numeric prix (of a model other than the excluded one) and numeric tokens;
\* the additions of lines 947-948 are not guarded, and adding None or a
\* string to the float or int of the defaultdict raises TypeError.
CostStep(acc, message) ==
    LET metadata == Get(message, "metadata", EmptyDict)
        modele == Get(message, "modele", "unknown")
        cout == Get(metadata, "cout", EmptyDict)
        prix == Get(cout, "prix", [type |-> "int", value |-> 0])
        tokens == Get(cout, "tokens", [type |-> "int", value |-> 0])
    IN  IF acc.raised \/ ~IsDict(cout) THEN acc
        ELSE IF ~IsNumber(prix) \/ ~IsNumber(tokens)
        THEN [acc EXCEPT !.raised = TRUE]
        ELSE [raised |-> FALSE,
              total_cost |->
                  IF modele # "gemini-2.0-flash-exp"
                  THEN Plus(acc.total_cost, Float(prix.value))
                  ELSE acc.total_cost,
              total_tokens |-> acc.total_tokens + tokens.value,
              model_costs |->
                  (modele :> Plus(Get(acc.model_costs, modele, Float(0)),
                                  Float(prix.value))) @@ acc.model_costs,
              model_tokens |->
                  (modele :> Get(acc.model_tokens, modele, 0) + tokens.value)
                      @@ acc.model_tokens]

RECURSIVE CostLoop(_, _)
\* the two nested loops over the messages of every conversation
CostLoop(acc, messages) ==
    IF messages = <<>> THEN acc
    ELSE CostLoop(CostStep(acc, Head(messages)), Tail(messages))

RECURSIVE AllMessages(_)
\* the messages of the conversations one after the other
AllMessages(convs) ==
    IF convs = <<>> THEN <<>>
    ELSE Head(convs)["messages"] \o AllMessages(Tail(convs))

\* the tuple calculate_total_cost returns, or the exception it raises
calculate_total_cost(convs) ==
    LET r == CostLoop([raised |-> FALSE, total_cost |-> Float(0),
                       total_tokens |-> 0, model_costs |-> EmptyDict,
                       model_tokens |-> EmptyDict],
                      AllMessages(convs))
    IN  IF r.raised THEN [raised |-> "TypeError"]
        ELSE [returned |-> <<r.total_cost, r.total_tokens, r.model_costs,
                             r.model_tokens>>]

-----------------------------------------------------------------------------
(* get_model_stats(conversations) and the totals main derives from it      *)

\* what the defaultdict holds for a model not met before
NewModelStats ==
    [count |-> 0, total_cost |-> Float(0), total_tokens |-> 0,
     avg_response_length |-> 0, with_docs |-> 0, with_citations |-> 0]

\* one iteration of `for message in conv['messages']`: every addition to the
\* costs is guarded by the type of the value
ModelStatsStep(model_stats, message) ==
    LET modele == Get(message, "modele", "unknown")
        stats == Get(model_stats, modele, NewModelStats)
        metadata == Get(message, "metadata", EmptyDict)
        cout == Get(metadata, "cout", EmptyDict)
        prix == Get(cout, "prix", [type |-> "int", value |-> 0])
        tokens == Get(cout, "tokens", [type |-> "int", value |-> 0])
        reponse == Get(message, "reponse", EmptyStr)
        docs == Get(message, "docs", <<>>)
        citations == Get(metadata, "citations", <<>>)
    IN  (modele :>
            [count |-> stats.count + 1,
             total_cost |->
                 IF IsDict(cout) /\ IsNumber(prix)
                 THEN Plus(stats.total_cost, Float(prix.value))
                 ELSE stats.total_cost,
             total_tokens |->
                 IF IsDict(cout) /\ IsNumber(tokens)
                 THEN stats.total_tokens + tokens.value
                 ELSE stats.total_tokens,
             avg_response_length |-> stats.avg_response_length + Len(reponse),
             with_docs |->
                 IF Len(docs) > 0 THEN stats.with_docs + 1
                 ELSE stats.with_docs,
             with_citations |->
                 IF Len(citations) > 0 THEN stats.with_citations + 1
                 ELSE stats.with_citations])
            @@ model_stats

RECURSIVE ModelStatsLoop(_, _)
\* the two nested loops over the messages of every conversation
ModelStatsLoop(model_stats, messages) ==
    IF messages = <<>> THEN model_stats
    ELSE ModelStatsLoop(ModelStatsStep(model_stats, Head(messages)),
                        Tail(messages))

\* the dict get_model_stats returns, the averages computed
get_model_stats(convs) ==
    LET model_stats == ModelStatsLoop(EmptyDict, AllMessages(convs))
    IN  [modele \in DOMAIN model_stats |->
            LET stats == model_stats[modele]
            IN  [count |-> stats.count,
                 total_cost |-> stats.total_cost,
                 total_tokens |-> stats.total_tokens,
                 avg_response_length |->
                     stats.avg_response_length \div stats.count,
                 with_docs |-> stats.with_docs,
                 with_citations |-> stats.with_citations,
                 avg_cost |-> Over(stats.total_cost, stats.count),
                 avg_tokens |-> stats.total_tokens \div stats.count]]

RECURSIVE SumOfCosts(_, _)
\* sum(stats['total_cost'] for k, stats in model_stats.items() if k in keys)
SumOfCosts(model_stats, keys) ==
    IF keys = {} THEN Float(0)
    ELSE LET k == CHOOSE key \in keys : TRUE
         IN  Plus(model_stats[k].total_cost,
                  SumOfCosts(model_stats, keys \ {k}))

\* a total that leaves no model out
total_model_cost_every_model(model_stats) ==
    SumOfCosts(model_stats, DOMAIN model_stats)

\* total_model_cost of main: the costs of every model but the excluded one
total_model_cost(model_stats) ==
    SumOfCosts(model_stats, DOMAIN model_stats \ {"gemini-2.0-flash-exp"})

-----------------------------------------------------------------------------
(* The calls of the analysers, each on the collection `conversations`.     *)

\* the function returns value: result holds it, the arguments are untouched
Return(fn, value) ==
    /\ result' = [fn |-> fn, value |-> value]
    /\ pc' = "done"
    /\ UNCHANGED backend
    /\ UNCHANGED <<conversations, date_filter, user_filter, specific_email,
                   precise_date, email_pattern, now, tested_email,
                   filtered_conversations, final_conversations,
                   questions_stats>>

\* conv_analysis = analyze_conversations(filtered_conversations)
AnalyzeConversations ==
    /\ pc = "call"
    /\ Return("analyze_conversations", analyze_conversations(conversations))

\* duration_stats = get_conversation_duration_stats(filtered_conversations)
GetConversationDurationStats ==
    /\ pc = "call"
    /\ Return("get_conversation_duration_stats",
              get_conversation_duration_stats(conversations))

\* the model names of the messages of the collection
ModelNames(convs) ==
    UNION {{Get(convs[i]["messages"][j], "modele", "unknown") :
               j \in 1..Len(convs[i]["messages"])} : i \in 1..Len(convs)}

\* the orders in which a run of the interpreter may iterate over a set of
\* the names of S
Orders(S) ==
    {order \in [1..Cardinality(S) -> S] :
        \A i, j \in 1..Cardinality(S) : order[i] = order[j] => i = j}

\* long_conv_analysis = analyze_long_conversations(filtered_conversations)
AnalyzeLongConversations ==
    /\ pc = "call"
    /\ \E order \in Orders(ModelNames(conversations)) :
           Return("analyze_long_conversations",
                  analyze_long_conversations(conversations, order))

\* analyze_conversation_pattern(valid_messages) for one of the conversations
AnalyzeConversationPattern ==
    /\ pc = "call"
    /\ \E i \in 1..Len(conversations) :
           LET messages == valid_messages(conversations[i]["messages"])
           IN  /\ result' = [fn |-> "analyze_conversation_pattern",
                             messages |-> messages,
                             value |-> analyze_conversation_pattern(messages)]
               /\ pc' = "done"
               /\ UNCHANGED backend
               /\ UNCHANGED <<conversations, date_filter, user_filter,
                              specific_email, precise_date, email_pattern,
                              now, tested_email, filtered_conversations,
                              final_conversations, questions_stats>>

\* total_cost, total_tokens, model_costs, model_tokens =
\*     calculate_total_cost(filtered_conversations)
CalculateTotalCost ==
    /\ pc = "call"
    /\ Return("calculate_total_cost", calculate_total_cost(conversations))

\* model_stats = get_model_stats(filtered_conversations), and the total cost
\* main derives from it when the dict is not empty
GetModelStats ==
    /\ pc = "call"
    /\ LET model_stats == get_model_stats(conversations)
       IN  /\ result' = IF model_stats # EmptyDict
                        THEN [fn |-> "get_model_stats", value |-> model_stats,
                              total_model_cost |->
                                  total_model_cost(model_stats)]
                        ELSE [fn |-> "get_model_stats", value |-> model_stats]
           /\ pc' = "done"
           /\ UNCHANGED backend
           /\ UNCHANGED <<conversations, date_filter, user_filter,
                          specific_email, precise_date, email_pattern, now,
                          tested_email, filtered_conversations,
                          final_conversations, questions_stats>>

\* the aggregators main hands a collection to
NextAnalyse ==
    \/ FilterConversations
    \/ AnalyzeConversations
    \/ GetConversationDurationStats
    \/ AnalyzeLongConversations
    \/ AnalyzeConversationPattern
    \/ CalculateTotalCost
    \/ GetModelStats

\* largest number of messages in a collection handed to the analysers
MaxAnalysed == 3

\* the collection whose i-th conversation holds the next lens[i] messages of
\* the list flat
Split(flat, lens) ==
    [i \in 1..Len(lens) |->
        Conversation(i, SubSeq(flat, SumInt(SubSeq(lens, 1, i - 1)) + 1,
                               SumInt(SubSeq(lens, 1, i))))]

\* before the call of an aggregator, with no filter set, on a collection of
\* at most MaxConvs conversations and MaxAnalysed messages of U, the
\* messages in any order
InitAnalyse(U) ==
    /\ \E k \in 0..MaxConvs : \E lens \in [1..k -> 0..MaxAnalysed] :
           /\ SumInt(lens) <= MaxAnalysed
           /\ \E flat \in [1..SumInt(lens) -> U] :
                  conversations = Split(flat, lens)
    /\ date_filter = "Toutes"
    /\ user_filter = "Tous les utilisateurs"
    /\ specific_email = EmptyStr
    /\ precise_date = <<>>
    /\ email_pattern = EmptyStr
    /\ now \in NowValues
    /\ pc = "call"
    /\ filtered_conversations = <<>>
    /\ final_conversations = <<>>
    /\ questions_stats = EmptyDict
    /\ tested_email = EmptyStr
    /\ result = NoResult
    /\ NoBackend

\* collections whose messages differ in the question
InitClassify == InitAnalyse(QuestionParts)

SpecClassify == InitClassify /\ [][NextAnalyse]_vars

\* messages without timestamp, with a zero, a negative and positive ones that
\* lie 58.5, 60, 61.5 and 120 minutes apart, and a blank message
DurationMessages ==
    Messages({[question |-> <<"q">>]},
             {EmptyDict} \cup
             {[timestamp |-> t] : t \in {0, -600, 600, 4110, 4200, 4290, 7800}},
             {EmptyDict})
        \cup {[question |-> <<" ">>, timestamp |-> 600]}

InitDuration == InitAnalyse(DurationMessages)

SpecDuration == InitDuration /\ [][NextAnalyse]_vars

\* messages at the timestamps of the documented example, without timestamp,
\* and a blank message
LongMessages ==
    Messages({[question |-> <<"q">>]},
             {EmptyDict} \cup {[timestamp |-> t] : t \in {0, 600, 1800, 2400}},
             {EmptyDict})
        \cup {[question |-> <<" ">>, timestamp |-> 600]}

InitLong == InitAnalyse(LongMessages)

SpecLong == InitLong /\ [][NextAnalyse]_vars

\* messages without documents, with an empty list of documents and with one
\* document, from two models, and a blank message
PatternMessages ==
    Messages({[question |-> <<"q">>]},
             {EmptyDict},
             {EmptyDict, [docs |-> <<>>], [docs |-> <<"d">>],
              [docs |-> <<"d">>, modele |-> "gpt-4"]})
        \cup {[question |-> <<" ">>, docs |-> <<"d">>]}

InitPattern == InitAnalyse(PatternMessages)

SpecPattern == InitPattern /\ [][NextAnalyse]_vars

\* messages answered by three models and by none that is named, and a blank
\* message
ModelMessages ==
    Messages({[question |-> <<"q">>]},
             {EmptyDict},
             {EmptyDict, [modele |-> "gpt-4"], [modele |-> "claude"],
              [modele |-> "mistral"]})
        \cup {[question |-> <<" ">>, modele |-> "gpt-4"]}

InitModels == InitAnalyse(ModelMessages)

SpecModels == InitModels /\ [][NextAnalyse]_vars

\* a cost of metadata.cout: a number with its type, None or a string
IntValue(n) == [type |-> "int", value |-> n]
FloatValue(n) == [type |-> "float", value |-> n]
NoneValue == [type |-> "NoneType"]
StrValue == [type |-> "str"]

\* messages of 'gpt-4', of the model left out of the display total and of no
\* named model: with both costs (and an answer, a document and a citation),
\* without tokens, without cout, without prix,
\* with a prix None, with tokens that are a string, with a cout that is not
\* a dict, and a blank message with costs
CostMessages ==
    {[question |-> <<"q">>, modele |-> "gpt-4", reponse |-> <<"a", "b", "c">>,
      docs |-> <<"d">>,
      metadata |-> [cout |-> [prix |-> FloatValue(2),
                              tokens |-> IntValue(7)],
                    citations |-> <<"c">>]],
     [question |-> <<"q">>, modele |-> "gemini-2.0-flash-exp",
      metadata |-> [cout |-> [prix |-> FloatValue(5),
                              tokens |-> IntValue(10)]]],
     [question |-> <<"q">>,
      metadata |-> [cout |-> [prix |-> IntValue(3)]]],
     [question |-> <<"q">>, modele |-> "gpt-4"],
     [question |-> <<"q">>, modele |-> "gemini-2.0-flash-exp",
      metadata |-> [cout |-> [tokens |-> IntValue(4)]]],
     [question |-> <<"q">>, modele |-> "gpt-4",
      metadata |-> [cout |-> [prix |-> NoneValue, tokens |-> IntValue(3)]]],
     [question |-> <<"q">>, modele |-> "gpt-4",
      metadata |-> [cout |-> [prix |-> FloatValue(2),
                              tokens |-> StrValue]]],
     [question |-> <<"q">>, modele |-> "gpt-4",
      metadata |-> [cout |-> StrValue]],
     [question |-> <<" ">>, modele |-> "gpt-4",
      metadata |-> [cout |-> [prix |-> IntValue(1), tokens |-> IntValue(1)]]]}

InitCost == InitAnalyse(CostMessages)

SpecCost == InitCost /\ [][NextAnalyse]_vars

-----------------------------------------------------------------------------
(* Aggregators called again on the same snapshot with the same criteria.   *)

\* main runs again (every interaction reruns the script, in the running
\* interpreter or in one started later) and calls the aggregators with the
\* same collection, the same criteria and the same clock reading; what the
\* last call returned is kept for comparison
CallAgain ==
    /\ pc = "done"
    /\ pc' = "call"
    /\ UNCHANGED backend
    /\ UNCHANGED <<conversations, date_filter, user_filter, specific_email,
                   precise_date, email_pattern, now, tested_email, result,
                   filtered_conversations, final_conversations,
                   questions_stats>>

NextRepeat == NextAnalyse \/ CallAgain

\* questions of an admin and of a user answered by two models, a dated
\* question without role and model, and a blank message
RepeatMessages ==
    {[question |-> <<"q">>, modele |-> "gpt-4", metadata |-> [user_id |-> 0]],
     [question |-> <<"q">>, modele |-> "claude", metadata |-> [user_id |-> 1]],
     [question |-> <<"q">>, timestamp |-> 600],
     [question |-> <<" ">>]}

\* before the first call, with one of the role filters set
InitRepeat ==
    /\ \E k \in 0..MaxConvs : \E lens \in [1..k -> 0..MaxAnalysed] :
           /\ SumInt(lens) <= MaxAnalysed
           /\ \E flat \in [1..SumInt(lens) -> RepeatMessages] :
                  conversations = Split(flat, lens)
    /\ date_filter = "Toutes"
    /\ user_filter \in {"Tous les utilisateurs", "Admin (ID: 0)",
                        "Utilisateur (ID: 1)"}
    /\ specific_email = EmptyStr
    /\ precise_date = <<>>
    /\ email_pattern = EmptyStr
    /\ now \in NowValues
    /\ pc = "call"
    /\ filtered_conversations = <<>>
    /\ final_conversations = <<>>
    /\ questions_stats = EmptyDict
    /\ tested_email = EmptyStr
    /\ result = NoResult
    /\ NoBackend

SpecRepeat == InitRepeat /\ [][NextRepeat]_vars

-----------------------------------------------------------------------------
(* load_conversations_from_firebase() behind st.cache_data(ttl=60), as main *)
(* calls it.                                                                *)

\* a document of the database: its id and what to_dict() returns
Document(id, data) == [id |-> id, data |-> data]

\* a document of the collection 'conversations' with the documents of its
\* sub-collection 'messages', in the order in which get() returns them
ConversationDocument(id, data, messages) ==
    [id |-> id, data |-> data, messages |-> messages]

RECURSIVE SortByTimestamp(_)
\* messages.sort(key=lambda x: x.get('timestamp', 0)): stable, ascending
SortByTimestamp(messages) ==
    IF messages = <<>> THEN <<>>
    ELSE LET rest == SortByTimestamp(Tail(messages))
             key(m) == Get(m, "timestamp", 0)
             before == Cardinality({i \in 1..Len(rest) :
                                       key(rest[i]) < key(Head(messages))})
         IN  SubSeq(rest, 1, before) \o <<Head(messages)>>
                 \o SubSeq(rest, before + 1, Len(rest))

\* the list the try block builds from the documents it reads
LoadedConversations(documents) ==
    [i \in 1..Len(documents) |->
        [id |-> documents[i].id,
         metadata |-> Get(documents[i].data, "metadata", EmptyDict),
         messages |->
             SortByTimestamp(
                 [j \in 1..Len(documents[i].messages) |->
                     [id |-> documents[i].messages[j].id]
                         @@ documents[i].messages[j].data])]]

\* what st.error and st.warning write
FirebaseUnavailable == "Firebase non disponible. Vérifiez la configuration."
LoadingError == "Erreur lors du chargement des conversations"
NothingToShow == "Aucune conversation trouvée ou erreur de connexion Firebase."

\* one execution of the body of load_conversations_from_firebase: the
\* database is read ("fetched"), or init_firebase() returns None
\* ("unavailable"), or a read raises ("failed"); the value returned and the
\* errors written.  origin is not a value of the program: it records for
\* the properties which of the three happened.
LoadOutcomes ==
    {[origin |-> "fetched", value |-> LoadedConversations(firestore),
      errors |-> <<>>],
     [origin |-> "unavailable", value |-> <<>>,
      errors |-> <<FirebaseUnavailable>>],
     [origin |-> "failed", value |-> <<>>, errors |-> <<LoadingError>>]}

\* main from its call of the loader to the test of what it got (lines
\* 1116-1123).  With an entry in the cache the body is not executed and the
\* entry is served (the elements the body wrote are replayed or not,
\* depending on the version of the library); without one the body runs and
\* what it returns is memoized, whatever it is.  An empty list makes main
\* write its warning and return; otherwise the aggregators are called.
LoadConversations ==
    /\ pc = "load"
    /\ \E served \in IF cache # <<>>
                    THEN {cache[1], [cache[1] EXCEPT !.errors = <<>>]}
                    ELSE LoadOutcomes :
           /\ cache' = IF cache # <<>> THEN cache ELSE <<served>>
           /\ conversations' = served.value
           /\ result' = [fn |-> "load_conversations_from_firebase",
                         value |-> served.value, origin |-> served.origin]
           /\ displayed' = served.errors
                  \o IF served.value = <<>> THEN <<NothingToShow>> ELSE <<>>
           /\ pc' = IF served.value = <<>> THEN "stopped" ELSE "call"
    /\ UNCHANGED <<date_filter, user_filter, specific_email, precise_date,
                   email_pattern, now, tested_email, filtered_conversations,
                   final_conversations, questions_stats, firestore, locals>>

\* more than ttl = 60 seconds after the entry was stored the library drops it
CacheExpires ==
    /\ cache # <<>>
    /\ cache' = <<>>
    /\ UNCHANGED <<conversations, date_filter, user_filter, specific_email,
                   precise_date, email_pattern, now, pc, tested_email, result,
                   filtered_conversations, final_conversations,
                   questions_stats, firestore, displayed, locals>>

\* an interaction makes the library run the script again, on an empty page
ScriptReruns ==
    /\ pc \in {"stopped", "done"}
    /\ pc' = "load"
    /\ displayed' = <<>>
    /\ UNCHANGED <<conversations, date_filter, user_filter, specific_email,
                   precise_date, email_pattern, now, tested_email, result,
                   filtered_conversations, final_conversations,
                   questions_stats, firestore, cache, locals>>

NextLoad ==
    \/ LoadConversations
    \/ FilterConversations
    \/ CacheExpires
    \/ ScriptReruns

\* the messages of the databases read: with and without timestamp
LoadMessages ==
    {[question |-> <<"q">>, timestamp |-> 600], [question |-> <<"q">>]}

\* the lists of at most MaxMsgs message documents over U, numbered in order
MessageDocuments(U) ==
    UNION {{[j \in 1..n |-> Document(j, data[j])] : data \in [1..n -> U]} :
              n \in 0..MaxMsgs}

\* the databases of at most MaxConvs conversations with messages over U
Databases(U) ==
    UNION {{[i \in 1..k |-> ConversationDocument(i, EmptyDict, lists[i])] :
               lists \in [1..k -> MessageDocuments(U)]} : k \in 0..MaxConvs}

\* the script starts: nothing is memoized, the page is empty
InitLoad ==
    /\ firestore \in Databases(LoadMessages)
    /\ cache = <<>>
    /\ displayed = <<>>
    /\ locals = EmptyDict
    /\ conversations = <<>>
    /\ date_filter = "Toutes"
    /\ user_filter = "Tous les utilisateurs"
    /\ specific_email = EmptyStr
    /\ precise_date = <<>>
    /\ email_pattern = EmptyStr
    /\ now \in NowValues
    /\ pc = "load"
    /\ filtered_conversations = <<>>
    /\ final_conversations = <<>>
    /\ questions_stats = EmptyDict
    /\ tested_email = EmptyStr
    /\ result = NoResult

SpecLoad == InitLoad /\ [][NextLoad]_vars

-----------------------------------------------------------------------------
(* aggregate_feedback(conversations, filters): the feedback aggregator of   *)
(* section 4.7 of the specification.  Its code is not among the files of    *)
(* src/; the definitions follow the words of that section.                  *)

\* the fixed prefix of a rating
RatingPrefix == <<"r", "a", "t", "i", "n", "g", "_">>

\* variant of RatingOf: the character after the prefix decides, whatever
\* follows it
RatingOf_first_digit(feedback) ==
    LET stands == {n \in 1..5 :
                      /\ Len(feedback) > Len(RatingPrefix)
                      /\ StartsWith(feedback, RatingPrefix \o Str(n))}
    IN  IF stands = {} THEN <<>> ELSE <<CHOOSE n \in stands : TRUE>>

\* the rating a feedback string stands for: <<n>> if it is the prefix
\* followed by one of "1".."5", <<>> for any other string
RatingOf(feedback) ==
    LET stands == {n \in 1..5 : feedback = RatingPrefix \o Str(n)}
    IN  IF stands = {} THEN <<>> ELSE <<CHOOSE n \in stands : TRUE>>

\* the counts after one message: a message with a non-blank question that
\* passes the role and email rules of the filter and carries a rating adds
\* one to the count of that rating
FeedbackStep(counts, msg, ufilter, semail, pattern) ==
    LET rating == RatingOf(Get(msg, "feedback", EmptyStr))
    IN  IF /\ HasQuestion(msg)
           /\ should_include(msg, ufilter, semail, pattern)
           /\ rating # <<>>
        THEN [counts EXCEPT ![rating[1]] = @ + 1]
        ELSE counts

RECURSIVE FeedbackLoop(_, _, _, _, _)
\* the counts after the messages given
FeedbackLoop(counts, messages, ufilter, semail, pattern) ==
    IF messages = <<>> THEN counts
    ELSE FeedbackLoop(FeedbackStep(counts, Head(messages), ufilter, semail,
                                   pattern),
                      Tail(messages), ufilter, semail, pattern)

\* the distribution: the count per rating and the total, with the mean
\* rating and the satisfaction percentage, or "no feedback" for a total of 0
aggregate_feedback(convs, ufilter, semail, pattern) ==
    LET counts == FeedbackLoop([r \in 1..5 |-> 0], AllMessages(convs),
                               ufilter, semail, pattern)
        total == SumInt(counts)
    IN  IF total = 0
        THEN [counts |-> counts, total |-> 0, report |-> "no feedback"]
        ELSE [counts |-> counts, total |-> total,
              mean |-> Quotient(SumInt([r \in 1..5 |-> r * counts[r]]),
                                total),
              satisfaction |->
                  Quotient((counts[4] + counts[5]) * 100, total)]

\* the presentation layer asks for the distribution under the filters set
AggregateFeedback ==
    /\ pc = "call"
    /\ Return("aggregate_feedback",
              aggregate_feedback(conversations, user_filter, specific_email,
                                 email_pattern))

NextFeedback == AggregateFeedback \/ FilterConversations

\* questions of a user rated 5, 4 and 6, with a rating followed by a second
\* digit, with a free-form token and without feedback, a question of an
\* admin rated 3, and a blank message rated 4
FeedbackMessages ==
    {[question |-> <<"q">>, feedback |-> RatingPrefix \o <<"5">>],
     [question |-> <<"q">>, feedback |-> RatingPrefix \o <<"4">>],
     [question |-> <<"q">>, feedback |-> RatingPrefix \o <<"6">>],
     [question |-> <<"q">>, feedback |-> RatingPrefix \o <<"4", "5">>],
     [question |-> <<"q">>, feedback |-> <<"u", "p">>],
     [question |-> <<"q">>],
     [question |-> <<"q">>, feedback |-> RatingPrefix \o <<"3">>,
      metadata |-> [user_id |-> 0]],
     [question |-> <<" ">>, feedback |-> RatingPrefix \o <<"4">>]}

\* before the call, with one of the role filters set
InitFeedback ==
    /\ \E k \in 0..MaxConvs : \E lens \in [1..k -> 0..MaxAnalysed] :
           /\ SumInt(lens) <= MaxAnalysed
           /\ \E flat \in [1..SumInt(lens) -> FeedbackMessages] :
                  conversations = Split(flat, lens)
    /\ date_filter = "Toutes"
    /\ user_filter \in {"Tous les utilisateurs", "Admin (ID: 0)",
                        "Utilisateur (ID: 1)"}
    /\ specific_email = EmptyStr
    /\ precise_date = <<>>
    /\ email_pattern = EmptyStr
    /\ now \in NowValues
    /\ pc = "call"
    /\ filtered_conversations = <<>>
    /\ final_conversations = <<>>
    /\ questions_stats = EmptyDict
    /\ tested_email = EmptyStr
    /\ result = NoResult
    /\ NoBackend

SpecFeedback == InitFeedback /\ [][NextFeedback]_vars

-----------------------------------------------------------------------------
(* delete_duplicate_questions_from_firebase(), one Firestore call at a     *)
(* time.                                                                    *)

\* the message documents of the database in the order of the two nested
\* loops of the scan, each with the id of its conversation
RECURSIVE ScanOrder(_)
ScanOrder(documents) ==
    IF documents = <<>> THEN <<>>
    ELSE [j \in 1..Len(Head(documents).messages) |->
             [conv_id |-> Head(documents).id,
              msg_id |-> Head(documents).messages[j].id,
              data |-> Head(documents).messages[j].data]]
         \o ScanOrder(Tail(documents))

\* msg_data.get('question', '').strip().lower()
NormalizedQuestion(msg_data) ==
    Lower(Strip(Get(msg_data, "question", EmptyStr)))

\* a scan that compares the questions as they are written
ScanStep_as_written(scan, msg_doc) ==
    LET question == Get(msg_doc.data, "question", EmptyStr)
    IN  IF Strip(question) = EmptyStr THEN scan
        ELSE IF question \in scan.seen_questions
        THEN [scan EXCEPT !.messages_to_delete =
                  Append(@, [conv_id |-> msg_doc.conv_id,
                             msg_id |-> msg_doc.msg_id,
                             question |-> question])]
        ELSE [scan EXCEPT !.seen_questions = @ \cup {question}]

\* one iteration of `for msg_doc in message_docs`: a non-empty question met
\* before marks the message, one not met before is remembered
ScanStep(scan, msg_doc) ==
    LET question == NormalizedQuestion(msg_doc.data)
    IN  IF question = EmptyStr THEN scan
        ELSE IF question \in scan.seen_questions
        THEN [scan EXCEPT !.messages_to_delete =
                  Append(@, [conv_id |-> msg_doc.conv_id,
                             msg_id |-> msg_doc.msg_id,
                             question |-> question])]
        ELSE [scan EXCEPT !.seen_questions = @ \cup {question}]

RECURSIVE ScanLoop(_, _)
\* the scan of every message of every conversation
ScanLoop(scan, msg_docs) ==
    IF msg_docs = <<>> THEN scan
    ELSE ScanLoop(ScanStep(scan, Head(msg_docs)), Tail(msg_docs))

\* messages_to_delete once the database is scanned
MessagesToDelete(documents) ==
    ScanLoop([seen_questions |-> {}, messages_to_delete |-> <<>>],
             ScanOrder(documents)).messages_to_delete

\* the database without the message document msg_id of conversation conv_id
WithoutMessage(documents, conv_id, msg_id) ==
    [i \in 1..Len(documents) |->
        IF documents[i].id = conv_id
        THEN [documents[i] EXCEPT !.messages =
                 SelectSeq(@, LAMBDA msg_doc : msg_doc.id # msg_id)]
        ELSE documents[i]]

\* what the function writes on the page
AnalysingDuplicates ==
    "Analyse des conversations pour identifier les doublons..."
DeleteError == "Erreur lors de la suppression du message"
DuplicatesDeleted == "questions en doublon supprimées de Firebase"
NoDuplicate == "Aucun doublon trouvé dans la base de données"
DeletionError == "Erreur lors de la suppression des doublons"

\* the function returns deleted_count
DeleteReturn(deleted_count) ==
    /\ result' = [fn |-> "delete_duplicate_questions_from_firebase",
                  value |-> deleted_count]
    /\ pc' = "done"

\* the call, up to the end of the scan.  init_firebase() returns None and the
\* function returns 0 at once; or a read of the scan raises (a get() fails, a
\* question is not a string), the outer except writes its error and the
\* function returns 0; or the scan ends and the marked messages are kept for
\* the loop of deletions.  `before` and `failed` are not values of the
\* program: they record for the properties the database the function was
\* called on and the marked messages whose delete() raised.
DeleteDuplicateQuestions ==
    /\ pc = "call"
    /\ \/ /\ locals' = [before |-> firestore, scanned |-> FALSE]
          /\ displayed' = displayed
          /\ DeleteReturn(0)
       \/ /\ locals' = [before |-> firestore, scanned |-> FALSE]
          /\ displayed' = displayed \o <<AnalysingDuplicates, DeletionError>>
          /\ DeleteReturn(0)
       \/ /\ locals' = [before |-> firestore, scanned |-> TRUE,
                        messages_to_delete |-> MessagesToDelete(firestore),
                        i |-> 0, deleted_count |-> 0, failed |-> {}]
          /\ displayed' = displayed \o <<AnalysingDuplicates>>
          /\ pc' = "deleting"
          /\ UNCHANGED result
    /\ UNCHANGED <<conversations, date_filter, user_filter, specific_email,
                   precise_date, email_pattern, now, tested_email,
                   filtered_conversations, final_conversations,
                   questions_stats, firestore, cache>>

\* one iteration of `for i, msg_info in enumerate(messages_to_delete)`: the
\* document is deleted and counted, or delete() raises, the document stays,
\* the error is written and the loop goes on
DeleteMessage ==
    /\ pc = "deleting"
    /\ locals.i < Len(locals.messages_to_delete)
    /\ LET msg_info == locals.messages_to_delete[locals.i + 1]
       IN  \/ /\ firestore' = WithoutMessage(firestore, msg_info.conv_id,
                                             msg_info.msg_id)
              /\ locals' = [locals EXCEPT !.i = @ + 1,
                                          !.deleted_count = @ + 1]
              /\ displayed' = displayed
           \/ /\ firestore' = firestore
              /\ locals' = [locals EXCEPT
                               !.i = @ + 1,
                               !.failed = @ \cup {<<msg_info.conv_id,
                                                    msg_info.msg_id>>}]
              /\ displayed' = Append(displayed, DeleteError)
    /\ UNCHANGED <<conversations, date_filter, user_filter, specific_email,
                   precise_date, email_pattern, now, pc, tested_email, result,
                   filtered_conversations, final_conversations,
                   questions_stats, cache>>

\* after the last marked message: the outcome is written and deleted_count
\* is returned
DeleteEnds ==
    /\ pc = "deleting"
    /\ locals.i = Len(locals.messages_to_delete)
    /\ displayed' = Append(displayed,
                           IF locals.messages_to_delete # <<>>
                           THEN DuplicatesDeleted ELSE NoDuplicate)
    /\ DeleteReturn(locals.deleted_count)
    /\ UNCHANGED <<conversations, date_filter, user_filter, specific_email,
                   precise_date, email_pattern, now, tested_email,
                   filtered_conversations, final_conversations,
                   questions_stats, firestore, cache, locals>>

NextDelete ==
    \/ DeleteDuplicateQuestions
    \/ DeleteMessage
    \/ DeleteEnds

\* the messages of the databases scanned: a question, the same question in
\* capitals between blanks, another question, a blank one and none
DuplicateMessages ==
    {[question |-> <<"q">>], [question |-> <<" ", "Q", " ">>],
     [question |-> <<"r">>], [question |-> <<" ">>], [reponse |-> <<"a">>]}

\* the database whose i-th conversation holds the next lens[i] messages of
\* the list flat, the documents numbered in the order of get()
SplitDocuments(flat, lens) ==
    [i \in 1..Len(lens) |->
        ConversationDocument(
            i, EmptyDict,
            [j \in 1..lens[i] |->
                Document(j, flat[SumInt(SubSeq(lens, 1, i - 1)) + j])])]

\* before the call, on a database of at most MaxConvs conversations and
\* MaxAnalysed messages
InitDelete ==
    /\ \E k \in 0..MaxConvs : \E lens \in [1..k -> 0..MaxAnalysed] :
           /\ SumInt(lens) <= MaxAnalysed
           /\ \E flat \in [1..SumInt(lens) -> DuplicateMessages] :
                  firestore = SplitDocuments(flat, lens)
    /\ cache = <<>>
    /\ displayed = <<>>
    /\ locals = EmptyDict
    /\ conversations = <<>>
    /\ date_filter = "Toutes"
    /\ user_filter = "Tous les utilisateurs"
    /\ specific_email = EmptyStr
    /\ precise_date = <<>>
    /\ email_pattern = EmptyStr
    /\ now \in NowValues
    /\ pc = "call"
    /\ filtered_conversations = <<>>
    /\ final_conversations = <<>>
    /\ questions_stats = EmptyDict
    /\ tested_email = EmptyStr
    /\ result = NoResult

SpecDelete == InitDelete /\ [][NextDelete]_vars

-----------------------------------------------------------------------------
(* Vocabulary of the properties, stated on the data and not on the code.   *)

\* the call has returned
Done == pc = "done"

\* the question of m is missing, empty or made of whitespace only
IsBlank(m) ==
    \/ "question" \notin DOMAIN m
    \/ \A i \in DOMAIN m["question"] : m["question"][i] = " "

\* the message list of the output conversation with this id; <<>> if none
OutputMessages(id) ==
    LET at == {i \in 1..Len(final_conversations) :
                  final_conversations[i]["id"] = id}
    IN  IF at = {} THEN <<>>
        ELSE final_conversations[CHOOSE i \in at : TRUE]["messages"]

\* an output conversation has this id
InOutput(id) ==
    \E i \in 1..Len(final_conversations) : final_conversations[i]["id"] = id

\* the question-bearing messages of the output
OutputQuestions ==
    {m \in UNION {{final_conversations[i]["messages"][j] :
                      j \in 1..Len(final_conversations[i]["messages"])} :
                  i \in 1..Len(final_conversations)} : ~IsBlank(m)}

\* the exact-email criterion as the filter compares it; '' when none is set
ExactEmail == Lower(Strip(specific_email))

\* the role of m matches the role filter
RoleMatches(m) ==
    /\ user_filter = "Admin (ID: 0)" => msg_user_id(m) = 0
    /\ user_filter = "Utilisateur (ID: 1)" => msg_user_id(m) = 1

\* the positions (conversation, message) of the question-bearing messages of
\* the conversations that passed the date stage, restricted by Test
QuestionPositions(Test(_)) ==
    {p \in UNION {{<<i, j>> :
                      j \in 1..Len(filtered_conversations[i]["messages"])} :
                  i \in 1..Len(filtered_conversations)} :
        /\ ~IsBlank(filtered_conversations[p[1]]["messages"][p[2]])
        /\ Test(filtered_conversations[p[1]]["messages"][p[2]])}

\* the only message of a one-message snapshot
TheMessage == conversations[1]["messages"][1]

\* the snapshot is one conversation of one question-bearing message
OneQuestion ==
    /\ Len(conversations) = 1
    /\ Len(conversations[1]["messages"]) = 1
    /\ ~IsBlank(TheMessage)

\* the message of a one-message snapshot is in the output
Retained == OutputMessages(1) = <<TheMessage>>

-----------------------------------------------------------------------------
(* Properties of filter_conversations.                                     *)

\* C1: every question-bearing message of the output satisfies the active
\* predicate: its role matches the role filter, its resolved email equals the
\* exact email when one is set, and match_email_pattern accepts its resolved
\* email when a pattern is set.
C1_RetainedSatisfyCriteria ==
    Done =>
        \A m \in OutputQuestions :
            /\ RoleMatches(m)
            /\ ExactEmail # EmptyStr => msg_email(m) = ExactEmail
            /\ email_pattern # EmptyStr =>
                   match_email_pattern(msg_email(m), email_pattern)

\* C1 witness: an admin question is retained while the admin filter, an exact
\* email and a pattern are all set
C1_Witness ==
    /\ Done
    /\ OutputQuestions # {}
    /\ user_filter = "Admin (ID: 0)"
    /\ ExactEmail # EmptyStr
    /\ email_pattern # EmptyStr

\* the messages of conv the call retains: the blank ones and those should_include
\* accepts, in their order
RetainedMessages(conv) ==
    LET Keep(m) ==
            \/ IsBlank(m)
            \/ should_include(m, user_filter, specific_email, email_pattern)
    IN  SelectSeq(conv["messages"], Keep)

\* C2: a conversation that passed the date stage is in the output iff one of
\* its messages is retained; every output conversation has a non-empty message
\* list, which is exactly the retained messages in their original order.
C2_OutputIffRetained ==
    Done =>
        /\ \A i \in 1..Len(filtered_conversations) :
               LET conv == filtered_conversations[i]
               IN  /\ InOutput(conv["id"]) <=> RetainedMessages(conv) # <<>>
                   /\ OutputMessages(conv["id"]) = RetainedMessages(conv)
        /\ \A i \in 1..Len(final_conversations) :
               /\ final_conversations[i]["messages"] # <<>>
               /\ \E k \in 1..Len(filtered_conversations) :
                      filtered_conversations[k]["id"]
                          = final_conversations[i]["id"]
        /\ \A i, k \in 1..Len(final_conversations) :
               i < k => final_conversations[i]["id"] < final_conversations[k]["id"]

\* C2 witness: one conversation lost a message and is in the output, another
\* passed the date stage and is not
C2_Witness ==
    /\ Done
    /\ \E i \in 1..Len(filtered_conversations) :
           LET conv == filtered_conversations[i]
           IN  /\ InOutput(conv["id"])
               /\ Len(OutputMessages(conv["id"])) < Len(conv["messages"])
    /\ \E i \in 1..Len(filtered_conversations) :
           ~InOutput(filtered_conversations[i]["id"])

\* the blank messages of a message list, in their order
BlankMessages(messages) == SelectSeq(messages, IsBlank)

\* C3: in every conversation that passed the date stage, every message whose
\* question is blank is in the output unchanged, whatever the role filter, the
\* exact email and the pattern are.
C3_BlankAlwaysRetained ==
    Done =>
        \A i \in 1..Len(filtered_conversations) :
            LET conv == filtered_conversations[i]
            IN  BlankMessages(OutputMessages(conv["id"]))
                    = BlankMessages(conv["messages"])

\* C3 witness: a conversation whose question was filtered out is in the output
\* with its blank message only
C3_Witness ==
    /\ Done
    /\ user_filter # "Tous les utilisateurs"
    /\ email_pattern # EmptyStr
    /\ \E i \in 1..Len(filtered_conversations) :
           LET conv == filtered_conversations[i]
           IN  /\ Len(conv["messages"]) = 2
               /\ Len(OutputMessages(conv["id"])) = 1
               /\ IsBlank(OutputMessages(conv["id"])[1])

\* the tally of the question-bearing messages of the conversations that passed
\* the date stage
Tally ==
    LET Admin(m) == msg_user_id(m) = 0
        User(m)  == msg_user_id(m) # 0
        Each(m)  == m = m
    IN  [admin_questions |-> Cardinality(QuestionPositions(Admin)),
         user_questions  |-> Cardinality(QuestionPositions(User)),
         total_questions |-> Cardinality(QuestionPositions(Each))]

\* C4: questions_stats counts every question-bearing message of the
\* conversations that passed the date stage, retained or not, so it does not
\* depend on the role filter, the exact email or the pattern; the total is the
\* sum of the admin and user counts.  (For the empty snapshot the function
\* returns a dict without counters.)
C4_TallyBeforeRoleFilter ==
    Done =>
        /\ conversations # <<>> =>
               /\ questions_stats = Tally
               /\ questions_stats["total_questions"]
                      = questions_stats["admin_questions"]
                            + questions_stats["user_questions"]
        /\ conversations = <<>> => DOMAIN questions_stats = {}

\* C4 witness: under the admin filter the tally counts an admin question and a
\* user question although fewer questions are retained
C4_Witness ==
    /\ Done
    /\ user_filter = "Admin (ID: 0)"
    /\ conversations # <<>>
    /\ questions_stats["admin_questions"] >= 1
    /\ questions_stats["user_questions"] >= 1
    /\ Cardinality(OutputQuestions) < questions_stats["total_questions"]

\* C5: under the user-only filter a question-bearing message passes the role
\* and email test iff its role is 1 and no exact email is set or its resolved
\* email equals it; the pattern test then applies to what passed.
C5_UserOnlyRule ==
    (Done /\ OneQuestion /\ user_filter = "Utilisateur (ID: 1)") =>
        (Retained <=>
            /\ msg_user_id(TheMessage) = 1
            /\ ExactEmail = EmptyStr \/ msg_email(TheMessage) = ExactEmail
            /\ email_pattern = EmptyStr
                   \/ match_email_pattern(msg_email(TheMessage), email_pattern))

\* C5 witness: under the user-only filter with no pattern, a question whose
\* role is neither 0 nor 1 is not retained
C5_Witness ==
    /\ Done
    /\ OneQuestion
    /\ user_filter = "Utilisateur (ID: 1)"
    /\ email_pattern = EmptyStr
    /\ ExactEmail = EmptyStr
    /\ msg_user_id(TheMessage) \notin {0, 1}
    /\ ~Retained

\* C6: a pattern that is set is AND-ed into the decision under every role
\* filter: a question-bearing message is retained iff it passes the role and
\* email test and match_email_pattern accepts its resolved email; a question
\* with no resolvable email is never retained.
C6_PatternIsConjoined ==
    (Done /\ email_pattern # EmptyStr) =>
        /\ \A m \in OutputQuestions :
               /\ msg_email(m) # EmptyStr
               /\ match_email_pattern(msg_email(m), email_pattern)
        /\ OneQuestion =>
               (Retained <=>
                   /\ should_include_filters(TheMessage, user_filter,
                                             specific_email)
                   /\ match_email_pattern(msg_email(TheMessage),
                                          email_pattern))

\* C6 witness: an admin question without email passes the admin filter and is
\* not retained because a pattern is set
C6_Witness ==
    /\ Done
    /\ OneQuestion
    /\ email_pattern # EmptyStr
    /\ user_filter = "Admin (ID: 0)"
    /\ msg_user_id(TheMessage) = 0
    /\ ExactEmail = EmptyStr
    /\ msg_email(TheMessage) = EmptyStr
    /\ ~Retained

\* conv has no message, or its first message has no timestamp
Undated(conv) ==
    \/ conv["messages"] = <<>>
    \/ "timestamp" \notin DOMAIN conv["messages"][1]

\* conv passed the date stage
PassedDateStage(conv) ==
    \E i \in 1..Len(filtered_conversations) :
        filtered_conversations[i]["id"] = conv["id"]

\* C7: when precise_date is set the relative window is ignored, and a
\* conversation passes the date stage iff the timestamp of its first message
\* lies within that day; the later messages play no part.
C7_PreciseDateFirstMessage ==
    (Done /\ precise_date # <<>>) =>
        /\ \A i \in 1..Len(conversations) :
               LET conv == conversations[i]
               IN  PassedDateStage(conv) <=>
                       /\ ~Undated(conv)
                       /\ precise_date[1] * DayLen
                              <= conv["messages"][1]["timestamp"]
                       /\ conv["messages"][1]["timestamp"]
                              <= precise_date[1] * DayLen + (DayLen - 1)
        /\ \A i \in 1..Len(filtered_conversations) :
               filtered_conversations[i]
                   = conversations[filtered_conversations[i]["id"]]

\* C7 witness: with a precise date and the 7-day window both set, a
\* conversation older than the window passes the date stage on its first
\* message although its second message is of another day
C7_Witness ==
    /\ Done
    /\ precise_date # <<>>
    /\ date_filter = "7 derniers jours"
    /\ \E i \in 1..Len(conversations) :
           LET conv == conversations[i]
           IN  /\ PassedDateStage(conv)
               /\ Len(conv["messages"]) = 2
               /\ conv["messages"][1]["timestamp"] < now - 7 * DayLen
               /\ conv["messages"][2]["timestamp"]
                      > precise_date[1] * DayLen + (DayLen - 1)

\* a date criterion is active
DateActive == precise_date # <<>> \/ date_filter # "Toutes"

\* C8 as stated: an undated conversation is absent from the output when a
\* date criterion is active and is in the output when none is.
C8_UndatedKeptWithoutDate ==
    Done =>
        \A i \in 1..Len(conversations) :
            Undated(conversations[i]) =>
                /\ DateActive => ~InOutput(conversations[i]["id"])
                /\ ~DateActive => InOutput(conversations[i]["id"])

\* C8 amended: an undated conversation is dropped by the date stage, hence
\* absent from the output, when a date criterion is active; when none is it
\* passes the date stage, and is in the output iff one of its messages is
\* retained, so never when it has no message.
C8_UndatedPassesWithoutDate ==
    Done =>
        \A i \in 1..Len(conversations) :
            LET conv == conversations[i]
            IN  Undated(conv) =>
                    /\ DateActive =>
                           ~PassedDateStage(conv) /\ ~InOutput(conv["id"])
                    /\ ~DateActive =>
                           /\ PassedDateStage(conv)
                           /\ InOutput(conv["id"]) <=>
                                  \E j \in 1..Len(conv["messages"]) :
                                      \/ IsBlank(conv["messages"][j])
                                      \/ should_include(conv["messages"][j],
                                             user_filter, specific_email,
                                             email_pattern)
                           /\ conv["messages"] = <<>> => ~InOutput(conv["id"])

\* C8 witness: no date criterion is active; a conversation without message is
\* not in the output, one whose first message has no timestamp is
C8_Witness ==
    /\ Done
    /\ ~DateActive
    /\ \E i \in 1..Len(conversations) :
           /\ conversations[i]["messages"] = <<>>
           /\ ~InOutput(conversations[i]["id"])
    /\ \E i \in 1..Len(conversations) :
           /\ conversations[i]["messages"] # <<>>
           /\ Undated(conversations[i])
           /\ InOutput(conversations[i]["id"])

\* the role as C9 states it: metadata.user_id, else
\* metadata.user_info.user_id, else 1
RoleWithUserInfo(m) ==
    IF "metadata" \in DOMAIN m /\ "user_id" \in DOMAIN m["metadata"]
    THEN m["metadata"]["user_id"]
    ELSE IF /\ "metadata" \in DOMAIN m
            /\ "user_info" \in DOMAIN m["metadata"]
            /\ "user_id" \in DOMAIN m["metadata"]["user_info"]
         THEN m["metadata"]["user_info"]["user_id"]
         ELSE 1

\* the role read from metadata.user_id alone, else 1
RoleOfMetadata(m) ==
    IF "metadata" \in DOMAIN m /\ "user_id" \in DOMAIN m["metadata"]
    THEN m["metadata"]["user_id"]
    ELSE 1

EmailCandidates(m) ==
    LET metadata  == IF "metadata" \in DOMAIN m THEN m["metadata"] ELSE EmptyDict
        user_info == IF "user_info" \in DOMAIN metadata
                     THEN metadata["user_info"] ELSE EmptyDict
        At(d, k)  == IF k \in DOMAIN d THEN d[k] ELSE EmptyStr
    IN  <<At(user_info, "user_email"), At(metadata, "email"),
          At(user_info, "email")>>

\* the first non-empty value of a sequence of strings; '' if there is none
FirstNonEmpty(values) ==
    LET at == {i \in 1..Len(values) : values[i] # EmptyStr}
    IN  IF at = {} THEN EmptyStr
        ELSE values[CHOOSE i \in at : \A k \in at : i <= k]

\* the resolved email of C10
ResolvedEmail(m) == Lower(Strip(FirstNonEmpty(EmailCandidates(m))))

\* C10: the email compared by the filter is the first non-empty value among
\* user_info.user_email, metadata.email, user_info.email, trimmed and
\* lower-cased, and the exact email is normalised the same way: with no role
\* filter and no pattern a question is retained iff no exact email is set or
\* the two normalised emails are equal.
C10_EmailLookupOrder ==
    (Done /\ OneQuestion /\ email_pattern = EmptyStr) =>
        /\ user_filter = "Tous les utilisateurs" =>
               (Retained <=>
                   \/ ExactEmail = EmptyStr
                   \/ ResolvedEmail(TheMessage) = ExactEmail)
        /\ user_filter = "Email spécifique" =>
               (Retained <=>
                   /\ ExactEmail # EmptyStr
                   /\ ResolvedEmail(TheMessage) = ExactEmail)

\* C10 witness: user_info.user_email wins over metadata.email and is retained
\* for an exact email that differs from it in case and surrounding whitespace
C10_Witness ==
    /\ Done
    /\ OneQuestion
    /\ email_pattern = EmptyStr
    /\ user_filter = "Tous les utilisateurs"
    /\ EmailCandidates(TheMessage)[1] # EmptyStr
    /\ EmailCandidates(TheMessage)[2] # EmptyStr
    /\ EmailCandidates(TheMessage)[1] # specific_email
    /\ ExactEmail # EmptyStr
    /\ Retained

-----------------------------------------------------------------------------
(* Vocabulary of the properties of match_email_pattern.                    *)

\* the function fn has been called and has returned
Returned(fn) == pc = "done" /\ result.fn = fn

\* the value the function returned
Value == result.value

\* s is what trimming and lower-casing make of it
Normalized(s) ==
    /\ s = <<>> \/ (s[1] \notin {" ", "\n"} /\ s[Len(s)] \notin {" ", "\n"})
    /\ \A i \in 1..Len(s) : s[i] \notin {"A", "B", "X", "Y", "Q"}

\* the two arguments as the rules compare them
TestedNorm == Lower(Strip(tested_email))
PatternNorm == Lower(Strip(email_pattern))

\* s is the beginning of t
IsPrefix(s, t) == Len(s) <= Len(t) /\ \A i \in 1..Len(s) : s[i] = t[i]

\* s is the end of t
IsSuffix(s, t) ==
    Len(s) <= Len(t) /\ \A i \in 1..Len(s) : s[i] = t[Len(t) - Len(s) + i]

\* s occurs in t
IsSubstring(s, t) ==
    \E k \in 0..(Len(t) - Len(s)) : \A i \in 1..Len(s) : s[i] = t[k + i]

\* the four special rules in their order: when each applies to pattern p,
\* and its verdict on email e
SpecialRules(e, p) ==
    << [applies |-> p = e,
        verdict |-> TRUE],
       [applies |-> Len(p) >= 1 /\ p[1] = "@",
        verdict |-> IsSuffix(p, e)],
       [applies |-> Len(p) >= 2 /\ p[Len(p) - 1] = "@" /\ p[Len(p)] = "*",
        verdict |-> IsPrefix(SubSeq(p, 1, Len(p) - 1), e)],
       [applies |-> Len(p) >= 2 /\ p[1] = "*" /\ p[2] = "@",
        verdict |-> IsSuffix(SubSeq(p, 2, Len(p)), e)] >>

\* neither argument is the empty string, so the rules are consulted
RulesConsulted ==
    /\ Returned("match_email_pattern")
    /\ tested_email # <<>>
    /\ email_pattern # <<>>

\* C11: when both arguments are already trimmed and lower-cased,
\* match_email_pattern returns true for every email if the pattern is empty,
\* and false for every non-empty pattern if the email is empty.
C11_EmptyArguments ==
    (/\ Returned("match_email_pattern")
     /\ Normalized(tested_email)
     /\ Normalized(email_pattern))
        => /\ email_pattern = <<>> => Value = TRUE
           /\ (tested_email = <<>> /\ email_pattern # <<>>) => Value = FALSE

\* an empty email is refused by a non-empty normalised pattern that a later
\* rule would have accepted
C11_Witness ==
    /\ Returned("match_email_pattern")
    /\ tested_email = <<>>
    /\ email_pattern = <<"*">>
    /\ Value = FALSE

\* C12: when one of the four special rules applies (exact equality, '@...'
\* suffix, '...@*' prefix, '*@...' suffix), the result is the verdict of the
\* first that applies in that order, whatever the later rules would say; the
\* four documented examples have the documented results.
C12_FirstApplicableRule ==
    /\ RulesConsulted =>
          LET rules == SpecialRules(TestedNorm, PatternNorm)
          IN  \A i \in 1..4 :
                  (rules[i].applies /\ \A j \in 1..(i - 1) : ~rules[j].applies)
                      => Value = rules[i].verdict
    /\ (/\ Returned("match_email_pattern")
        /\ tested_email = <<"a", "@", "b", ".", "c", "o", "m">>
        /\ email_pattern = <<"@", "b", ".", "c", "o", "m">>) => Value = TRUE
    /\ (/\ Returned("match_email_pattern")
        /\ tested_email = <<"x", "@", "b", ".", "c", "o", "m">>
        /\ email_pattern = <<"x", "@", "*">>) => Value = TRUE
    /\ (/\ Returned("match_email_pattern")
        /\ tested_email =
              <<"a", "@", "g", "m", "a", "i", "l", ".", "c", "o", "m">>
        /\ email_pattern =
              <<"*", "@", "g", "m", "a", "i", "l", ".", "c", "o", "m">>)
          => Value = TRUE
    /\ (/\ Returned("match_email_pattern")
        /\ tested_email = <<"a", "@", "b", ".", "c", "o", "m">>
        /\ email_pattern = <<"x", "@", "*">>) => Value = FALSE

\* the '@...' rule and the '...@*' rule both apply and disagree; the earlier
\* one has decided
C12_Witness ==
    /\ RulesConsulted
    /\ LET rules == SpecialRules(TestedNorm, PatternNorm)
       IN  /\ ~rules[1].applies
           /\ rules[2].applies
           /\ rules[3].applies
           /\ rules[2].verdict # rules[3].verdict
           /\ Value = rules[2].verdict

\* the positions of the '*' of pattern p
Stars(p) == {i \in 1..Len(p) : p[i] = "*"}

\* the literal text of p between its j-th and its (j+1)-th '*'; the 0-th
\* '*' stands for the position before p and the last for the one after it
Segment(p, j) ==
    LET star(n) == CHOOSE i \in Stars(p) :
                       Cardinality({k \in Stars(p) : k < i}) = n - 1
        left  == IF j = 0 THEN 0 ELSE star(j)
        right == IF j = Cardinality(Stars(p)) THEN Len(p) + 1 ELSE star(j + 1)
    IN  SubSeq(p, left + 1, right - 1)

\* e is p read as a glob anchored at both ends: the literal segments of p
\* occur in e in their order without overlap, the first at the very
\* beginning and the last at the very end, each '*' covering what lies
\* between two of them
GlobAccepts(p, e) ==
    LET n == Cardinality(Stars(p))
    IN  \E at \in [0..n -> 1..(Len(e) + 1)] :
            /\ at[0] = 1
            /\ at[n] + Len(Segment(p, n)) = Len(e) + 1
            /\ \A j \in 0..n :
                   /\ at[j] + Len(Segment(p, j)) <= Len(e) + 1
                   /\ \A i \in 1..Len(Segment(p, j)) :
                          e[at[j] + i - 1] = Segment(p, j)[i]
            /\ \A j \in 1..n : at[j] >= at[j - 1] + Len(Segment(p, j - 1))

\* none of the four special rules applies to the arguments
NoSpecialRule ==
    /\ RulesConsulted
    /\ \A i \in 1..4 : ~SpecialRules(TestedNorm, PatternNorm)[i].applies

\* the email is written on one line
OneLine(e) == \A i \in 1..Len(e) : e[i] # "\n"

-----------------------------------------------------------------------------
(* Vocabulary of the properties of the analysers.                          *)

\* the number of valid (non-blank) messages of the i-th conversation
ValidCount(i) ==
    Cardinality({j \in 1..Len(conversations[i]["messages"]) :
                    ~IsBlank(conversations[i]["messages"][j])})

\* the conversations whose number of valid messages satisfies Test
ConversationsWith(Test(_)) ==
    {i \in 1..Len(conversations) : Test(ValidCount(i))}

\* the ids of the conversations listed in a bucket of the returned value
BucketIds(bucket) ==
    {Value["conversations"][bucket][k]["id"] :
        k \in 1..Len(Value["conversations"][bucket])}

\* the ids of the conversations of a set of positions
IdsOf(positions) == {conversations[i]["id"] : i \in positions}

\* C14: analyze_conversations lists and counts every conversation in exactly
\* one of the buckets empty (0 valid messages), single (1) and multi (2 or
\* more), so the three counters add up to total_conversations; the long
\* bucket holds exactly the conversations with 3 or more valid messages, all
\* of which are in the multi bucket as well.
C14_BucketsPartition ==
    Returned("analyze_conversations") =>
        LET stats  == Value["stats"]
            empty  == ConversationsWith(LAMBDA n : n = 0)
            single == ConversationsWith(LAMBDA n : n = 1)
            multi  == ConversationsWith(LAMBDA n : n >= 2)
            long   == ConversationsWith(LAMBDA n : n >= 3)
        IN  /\ stats["total_conversations"] = Len(conversations)
            /\ stats["single_question"] = Cardinality(single)
            /\ stats["multi_questions"] = Cardinality(multi)
            /\ conversations # <<>> =>
                  /\ stats["empty_conversations"] = Cardinality(empty)
                  /\ stats["long_conversations"] = Cardinality(long)
                  /\ stats["single_question"] + stats["multi_questions"]
                        + stats["empty_conversations"]
                        = stats["total_conversations"]
                  /\ BucketIds("empty_conversations") = IdsOf(empty)
                  /\ BucketIds("single_question") = IdsOf(single)
                  /\ BucketIds("multi_questions") = IdsOf(multi)
                  /\ BucketIds("long_conversations") = IdsOf(long)
                  /\ BucketIds("long_conversations")
                        \subseteq BucketIds("multi_questions")
                  /\ \A b \in {"empty_conversations", "single_question",
                               "multi_questions", "long_conversations"} :
                         Len(Value["conversations"][b])
                             = Cardinality(BucketIds(b))

\* a long conversation and a conversation without valid message were analysed
C14_Witness ==
    /\ Returned("analyze_conversations")
    /\ conversations # <<>>
    /\ Value["stats"]["long_conversations"] = 1
    /\ Value["stats"]["empty_conversations"] = 1
    /\ Value["stats"]["multi_questions"] = 1

\* C15: max_messages and min_messages are the largest and the smallest
\* number of valid messages among the conversations that have at least one;
\* min_messages is 0 only if no conversation has a valid message; and
\* avg_messages_per_conv is the number of valid messages of the collection
\* divided by the number of its conversations, empty ones included.
C15_MinMaxAverage ==
    Returned("analyze_conversations") =>
        LET stats  == Value["stats"]
            counts == {ValidCount(i) : i \in 1..Len(conversations)} \ {0}
            valid  == Cardinality(
                          {<<i, j>> \in (1..Len(conversations)) \X (1..MaxAnalysed) :
                              /\ j <= Len(conversations[i]["messages"])
                              /\ ~IsBlank(conversations[i]["messages"][j])})
        IN  /\ counts # {} =>
                  /\ stats["max_messages"] \in counts
                  /\ stats["min_messages"] \in counts
                  /\ \A n \in counts : /\ n <= stats["max_messages"]
                                       /\ n >= stats["min_messages"]
            /\ stats["min_messages"] = 0 => counts = {}
            /\ stats["avg_messages_per_conv"].num * Len(conversations)
                  = valid * stats["avg_messages_per_conv"].den

\* a conversation without valid message stands next to one with two or more:
\* the minimum ignores the first, the average does not
C15_Witness ==
    /\ Returned("analyze_conversations")
    /\ \E i \in 1..Len(conversations) : ValidCount(i) = 0
    /\ Value["stats"]["min_messages"] >= 2
    /\ Value["stats"]["avg_messages_per_conv"].den = 2

\* filter_conversations was called and has returned
Filtered == pc = "done" /\ result = NoResult

\* the fields of the stats analyze_conversations returns for a collection
\* that is not empty
StatsFields ==
    {"total_conversations", "single_question", "multi_questions",
     "long_conversations", "empty_conversations", "total_messages",
     "avg_messages_per_conv", "max_messages", "min_messages"}

\* filter_conversations of the empty collection: no conversation, and the
\* three counters at 0
EmptyFiltered ==
    (Filtered /\ conversations = <<>>) =>
        /\ final_conversations = <<>>
        /\ questions_stats = [admin_questions |-> 0, user_questions |-> 0,
                              total_questions |-> 0]

\* analyze_conversations of the empty collection: the stats of a collection
\* that is not empty, all 0, and no error
EmptyAnalysed ==
    (Returned("analyze_conversations") /\ conversations = <<>>) =>
        /\ "error" \notin DOMAIN Value
        /\ DOMAIN Value["stats"] = StatsFields
        /\ \A f \in DOMAIN Value["stats"] \ {"avg_messages_per_conv"} :
               Value["stats"][f] = 0
        /\ Value["stats"]["avg_messages_per_conv"].num = 0

\* calculate_total_cost of the empty collection: (0.0, 0, {}, {})
EmptyCost ==
    (Returned("calculate_total_cost") /\ conversations = <<>>) =>
        /\ DOMAIN Value = {"returned"}
        /\ Value["returned"][1].num = 0
        /\ Value["returned"][2] = 0
        /\ DOMAIN Value["returned"][3] = {}
        /\ DOMAIN Value["returned"][4] = {}

\* C16: handed the empty collection, filter_conversations returns no
\* conversation and the three question counters at 0, analyze_conversations
\* returns the statistics of a non-empty collection all at 0 (long and empty
\* counters included) and no error, and calculate_total_cost returns
\* (0.0, 0, {}, {}).
C16_EmptyCollection == EmptyFiltered /\ EmptyAnalysed /\ EmptyCost

\* the positions of the valid messages of the i-th conversation
ValidAt(i) ==
    {j \in 1..Len(conversations[i]["messages"]) :
        ~IsBlank(conversations[i]["messages"][j])}

\* the positions of its valid messages that carry a timestamp > 0
TimedAt(i) ==
    {j \in ValidAt(i) :
        /\ "timestamp" \in DOMAIN conversations[i]["messages"][j]
        /\ conversations[i]["messages"][j]["timestamp"] > 0}

\* the timestamps > 0 of its valid messages
PositiveTimestamps(i) ==
    {conversations[i]["messages"][j]["timestamp"] : j \in TimedAt(i)}

\* the largest and the smallest number of a non-empty set
Largest(S) == CHOOSE x \in S : \A y \in S : y <= x
Smallest(S) == CHOOSE x \in S : \A y \in S : x <= y

\* the conversations a returned value lists, or none if it has no list
Reported == Get(Value, "conversations", <<>>)

\* C17: get_conversation_duration_stats reports, once and in their order,
\* exactly the conversations with at least 2 valid messages of which at
\* least 2 carry a timestamp > 0; the duration_seconds it reports is the
\* largest minus the smallest of these timestamps and is never negative, in
\* whatever order the messages are.
C17_DurationOfPositiveTimestamps ==
    Returned("get_conversation_duration_stats") =>
        LET due == {i \in 1..Len(conversations) :
                       /\ Cardinality(ValidAt(i)) >= 2
                       /\ Cardinality(TimedAt(i)) >= 2}
        IN  /\ Len(Reported) = Cardinality(due)
            /\ {Reported[k]["id"] : k \in 1..Len(Reported)} = IdsOf(due)
            /\ \A k, l \in 1..Len(Reported) :
                   k < l => Reported[k]["id"] < Reported[l]["id"]
            /\ \A k \in 1..Len(Reported) : \A i \in due :
                   Reported[k]["id"] = conversations[i]["id"] =>
                       /\ Reported[k]["duration_seconds"]
                             = Largest(PositiveTimestamps(i))
                                   - Smallest(PositiveTimestamps(i))
                       /\ Reported[k]["duration_seconds"] >= 0

\* a conversation whose messages come latest first, one of them with a
\* timestamp that is not positive, is reported with a positive duration
C17_Witness ==
    /\ Returned("get_conversation_duration_stats")
    /\ \E i \in 1..Len(conversations) :
           LET messages == conversations[i]["messages"]
           IN  /\ Len(messages) = 3
               /\ ValidAt(i) = {1, 2, 3}
               /\ TimedAt(i) = {1, 3}
               /\ messages[1]["timestamp"] > messages[3]["timestamp"]
               /\ \E k \in 1..Len(Reported) :
                      /\ Reported[k]["id"] = conversations[i]["id"]
                      /\ Reported[k]["duration_seconds"] > 0

\* the timestamps of the valid messages of the i-th conversation in their
\* order, 0 standing for a message that has none
ValidTimestamps(i) ==
    LET valid == SelectSeq(conversations[i]["messages"],
                           LAMBDA m : ~IsBlank(m))
    IN  [k \in 1..Len(valid) |-> Get(valid[k], "timestamp", 0)]

\* the timestamps > 0 of its valid messages in ascending order, each as
\* often as it occurs
AscendingTimestamps(i) ==
    LET ts == ValidTimestamps(i)
        n  == Cardinality({k \in 1..Len(ts) : ts[k] > 0})
    IN  CHOOSE s \in [1..n -> PositiveTimestamps(i)] :
            /\ \A k \in 1..(n - 1) : s[k] <= s[k + 1]
            /\ \A t \in PositiveTimestamps(i) :
                   Cardinality({k \in 1..n : s[k] = t})
                       = Cardinality({k \in 1..Len(ts) : ts[k] = t})

\* the float x is that many seconds, counted in minutes
IsMinutes(x, seconds) == x.num * 60 = seconds * x.den

\* the entries a returned value lists for the i-th conversation
EntriesOf(i) ==
    {Reported[k] : k \in {l \in 1..Len(Reported) :
                             Reported[l]["id"] = conversations[i]["id"]}}

\* the conversations with 3 or more valid messages
LongConversations == ConversationsWith(LAMBDA n : n >= 3)

\* C18 as stated: three valid messages at [0, 600, 1800] give
\* duration_minutes = 30 in both analysers and the intervals [10, 20]; and a
\* long conversation whose valid messages all carry a timestamp > 0 and are
\* in the order of their timestamps has the duration last minus first
\* valid-message timestamp and one interval per adjacent pair of valid
\* messages.
C18_DurationOfValidMessages ==
    \A i \in LongConversations :
        LET ts == ValidTimestamps(i)
            example == ts = <<0, 600, 1800>>
            ascending == /\ \A k \in 1..Len(ts) : ts[k] > 0
                         /\ \A k \in 1..(Len(ts) - 1) : ts[k] <= ts[k + 1]
            intervals == ConversationIntervals(conversations[i])
        IN  /\ Returned("analyze_long_conversations") =>
                  /\ EntriesOf(i) # {}
                  /\ \A e \in EntriesOf(i) :
                         /\ example =>
                               /\ IsMinutes(e["duration_minutes"], 30 * 60)
                               /\ Len(intervals) = 2
                               /\ IsMinutes(intervals[1], 10 * 60)
                               /\ IsMinutes(intervals[2], 20 * 60)
                         /\ ascending =>
                               /\ IsMinutes(e["duration_minutes"],
                                            ts[Len(ts)] - ts[1])
                               /\ Len(intervals) = Len(ts) - 1
            /\ (Returned("get_conversation_duration_stats") /\ example) =>
                  /\ EntriesOf(i) # {}
                  /\ \A e \in EntriesOf(i) :
                         IsMinutes(e["duration_minutes"], 30 * 60)

\* C18 amended: the analysers discard the timestamp 0, so three valid
\* messages at [0, 600, 1800] give duration_minutes = 20 in both analysers
\* and the single interval [20], while [600, 1800, 2400] give 30 and
\* [20, 10]; a long conversation has the duration largest minus smallest
\* timestamp > 0 of its valid messages (0 if fewer than two) and one interval
\* per adjacent pair of these timestamps in ascending order.
C18_DurationOfPositiveTimestamps ==
    \A i \in LongConversations :
        LET ts == ValidTimestamps(i)
            sorted == AscendingTimestamps(i)
            intervals == ConversationIntervals(conversations[i])
        IN  /\ Returned("analyze_long_conversations") =>
                  /\ EntriesOf(i) # {}
                  /\ \A e \in EntriesOf(i) :
                         /\ IsMinutes(e["duration_minutes"],
                                      IF Len(sorted) >= 2
                                      THEN sorted[Len(sorted)] - sorted[1]
                                      ELSE 0)
                         /\ Len(intervals)
                               = IF Len(sorted) >= 2 THEN Len(sorted) - 1 ELSE 0
                         /\ \A k \in 1..Len(intervals) :
                                IsMinutes(intervals[k], sorted[k + 1] - sorted[k])
                         /\ ts = <<0, 600, 1800>> =>
                               /\ IsMinutes(e["duration_minutes"], 20 * 60)
                               /\ Len(intervals) = 1
                               /\ IsMinutes(intervals[1], 20 * 60)
                         /\ ts = <<600, 1800, 2400>> =>
                               /\ IsMinutes(e["duration_minutes"], 30 * 60)
                               /\ Len(intervals) = 2
                               /\ IsMinutes(intervals[1], 20 * 60)
                               /\ IsMinutes(intervals[2], 10 * 60)
            /\ (/\ Returned("get_conversation_duration_stats")
                /\ ts = <<0, 600, 1800>>) =>
                  /\ EntriesOf(i) # {}
                  /\ \A e \in EntriesOf(i) :
                         IsMinutes(e["duration_minutes"], 20 * 60)

\* the long-conversation analysis of three valid messages at [0, 600, 1800]
\* reports 20 minutes
C18_Witness ==
    /\ Returned("analyze_long_conversations")
    /\ \E i \in LongConversations :
           /\ ValidTimestamps(i) = <<0, 600, 1800>>
           /\ \E e \in EntriesOf(i) : IsMinutes(e["duration_minutes"], 20 * 60)

\* the decimal digits and their values
DigitValue ==
    [c \in {"0", "1", "2", "3", "4", "5", "6", "7", "8", "9"} |->
        CHOOSE d \in 0..9 : <<"0", "1", "2", "3", "4", "5", "6", "7", "8", "9">>
                                [d + 1] = c]

RECURSIVE NumeralValue(_)
\* the natural a string of digits denotes
NumeralValue(s) ==
    IF s = <<>> THEN 0
    ELSE 10 * NumeralValue(SubSeq(s, 1, Len(s) - 1)) + DigitValue[s[Len(s)]]

\* the string s is the decimal numeral of the natural n
IsNumeral(s, n) ==
    /\ s # <<>>
    /\ \A k \in 1..Len(s) : s[k] \in DOMAIN DigitValue
    /\ Len(s) > 1 => s[1] # "0"
    /\ NumeralValue(s) = n

\* the string s reads '<h>h <m>m'
IsHoursMinutes(s, h, m) ==
    \E k \in 1..Len(s) :
        /\ k + 2 < Len(s)
        /\ s[k] = "h"
        /\ s[k + 1] = " "
        /\ s[Len(s)] = "m"
        /\ IsNumeral(SubSeq(s, 1, k - 1), h)
        /\ IsNumeral(SubSeq(s, k + 2, Len(s) - 1), m)

\* the string s reads '<m>m'
IsMinutesOnly(s, m) ==
    /\ s # <<>>
    /\ s[Len(s)] = "m"
    /\ IsNumeral(SubSeq(s, 1, Len(s) - 1), m)

\* C19: the readable average of get_conversation_duration_stats reads
\* '<H>h <M>m' whenever the average is 60 minutes or more, exactly 60
\* included, and '<M>m' whenever it is below 60 minutes, where H is the
\* whole number of hours of the average and M the whole number of minutes
\* left.
C19_ReadableAverage ==
    (Returned("get_conversation_duration_stats") /\ Reported # <<>>) =>
        LET avg      == Value["summary"]["avg_duration_minutes"]
            readable == Value["summary"]["avg_duration_readable"]
            whole    == CHOOSE n \in 0..(avg.num + 1) :
                            /\ n * avg.den <= avg.num
                            /\ avg.num < (n + 1) * avg.den
            H        == CHOOSE h \in 0..whole :
                            60 * h <= whole /\ whole < 60 * (h + 1)
            M        == whole - 60 * H
        IN  IF avg.num >= 60 * avg.den
            THEN IsHoursMinutes(readable, H, M)
            ELSE IsMinutesOnly(readable, M)

\* the has-documents flags of a list of messages: the message has a 'docs'
\* list that is not empty
Flags(messages) ==
    [k \in 1..Len(messages) |->
        "docs" \in DOMAIN messages[k] /\ messages[k]["docs"] # <<>>]

\* the cases of the classification that hold of a non-empty list of flags,
\* each with its label
PatternCases(flags) ==
    LET all   == \A k \in 1..Len(flags) : flags[k]
        none  == \A k \in 1..Len(flags) : ~flags[k]
        first == flags[1]
        last  == flags[Len(flags)]
    IN  {c \in
           {<<all, "Analyse pure (uniquement documents)">>,
            <<none, "Recherche pure (aucun document)">>,
            <<~all /\ ~none /\ first /\ ~last, "Analyse → Recherche">>,
            <<~all /\ ~none /\ ~first /\ last, "Recherche → Analyse">>,
            <<(first <=> last) /\ \E k \in 1..Len(flags) : flags[k] # first,
              "Analyse mixte">>} : c[1]}

\* C20: for every non-empty list of has-documents flags exactly one of the
\* five cases holds (all true; all false; otherwise first true and last
\* false; first false and last true; first and last equal with a different
\* flag in between), and analyze_conversation_pattern returns the label of
\* that case, also as the conversation_pattern of every long conversation.
C20_FiveWayClassification ==
    /\ (Returned("analyze_conversation_pattern") /\ result.messages # <<>>) =>
          LET cases == PatternCases(Flags(result.messages))
          IN  /\ Cardinality(cases) = 1
              /\ \A c \in cases : Value = c[2]
    /\ Returned("analyze_long_conversations") =>
          \A i \in LongConversations :
              LET valid == SelectSeq(conversations[i]["messages"],
                                     LAMBDA m : ~IsBlank(m))
                  cases == PatternCases(Flags(valid))
              IN  /\ Cardinality(cases) = 1
                  /\ EntriesOf(i) # {}
                  /\ \A e \in EntriesOf(i) : \A c \in cases :
                         e["conversation_pattern"] = c[2]

\* documents at both ends and none in between: the mixed case
C20_Witness ==
    /\ Returned("analyze_conversation_pattern")
    /\ Flags(result.messages) = <<TRUE, FALSE, TRUE>>
    /\ Value = "Analyse mixte"

-----------------------------------------------------------------------------
(* The summary of the long conversations.                                  *)

\* the model of the j-th message of the i-th conversation
ModelAt(i, j) == Get(conversations[i]["messages"][j], "modele", "unknown")

\* the models of the valid messages of the long conversations
LongModels ==
    UNION {{ModelAt(i, j) : j \in ValidAt(i)} : i \in LongConversations}

\* the number of long conversations in which the model m appears
Appearances(m) ==
    Cardinality({i \in LongConversations :
                    \E j \in ValidAt(i) : ModelAt(i, j) = m})

\* the model m is met before the model n when the valid messages of the long
\* conversations are read in their order
MetBefore(m, n) ==
    \E i \in LongConversations : \E j \in ValidAt(i) :
        /\ ModelAt(i, j) = m
        /\ \A k \in LongConversations : \A l \in ValidAt(k) :
               ModelAt(k, l) = n => k > i \/ (k = i /\ l > j)

\* the model m comes before the model n in the ranking: more appearances, or
\* as many and met first
RankedBefore(m, n) ==
    \/ Appearances(m) > Appearances(n)
    \/ Appearances(m) = Appearances(n) /\ MetBefore(m, n)

\* C21: most_active_models lists at most 3 models, each with the number of
\* long conversations in which it appears, by decreasing number, models with
\* equal numbers in the order in which they are first met; the list is the
\* head of that ranking, therefore a function of the snapshot alone.
C21_MostActiveModels ==
    (/\ Returned("analyze_long_conversations")
     /\ "summary" \in DOMAIN Value
     /\ "most_active_models" \in DOMAIN Value["summary"])
    => LET top == Value["summary"]["most_active_models"]
           listed == {top[k][1] : k \in 1..Len(top)}
       IN  /\ Len(top) <= 3
           /\ Len(top) = Min2(3, Cardinality(LongModels))
           /\ \A k \in 1..Len(top) :
                  /\ top[k][1] \in LongModels
                  /\ top[k][2] = Appearances(top[k][1])
           /\ \A k, l \in 1..Len(top) :
                  k < l => RankedBefore(top[k][1], top[l][1])
           /\ \A m \in LongModels \ listed :
                  \A k \in 1..Len(top) : RankedBefore(top[k][1], m)

-----------------------------------------------------------------------------
(* Vocabulary of the costs.                                                *)

\* the model whose cost the display total leaves out
ExcludedModel == "gemini-2.0-flash-exp"

\* the messages of the collection, one conversation after the other
Collected == AllMessages(conversations)

\* the model of a message
ModelOf(m) == Get(m, "modele", "unknown")

\* the value of metadata.cout[field] of the message m, if there is one
CostField(m, field) ==
    LET cout == Get(Get(m, "metadata", EmptyDict), "cout", EmptyDict)
    IN  IF "type" \notin DOMAIN cout /\ field \in DOMAIN cout
        THEN <<cout[field]>> ELSE <<>>

\* the number that field contributes: its value if it is an int or a float,
\* zero if it is missing or anything else
Numeric(m, field) ==
    LET v == CostField(m, field)
    IN  IF v # <<>> /\ v[1].type \in {"int", "float"} THEN v[1].value ELSE 0

\* the sum of the numeric values of field over the messages that pass Test
Total(field, Test(_)) ==
    SumInt([k \in 1..Len(Collected) |->
               IF Test(Collected[k]) THEN Numeric(Collected[k], field) ELSE 0])

\* calculate_total_cost has returned its four results
CostReturned ==
    Returned("calculate_total_cost") /\ "returned" \in DOMAIN Value

\* the four results
DisplayedTotal == Value["returned"][1]
TotalTokens == Value["returned"][2]
ModelCosts == Value["returned"][3]
ModelTokens == Value["returned"][4]

\* the collection of the documented example: 5.0 of the excluded model and
\* 2.0 of gpt-4
ExcludedFiveOtherTwo ==
    /\ Len(Collected) = 2
    /\ \E k, l \in 1..2 :
           /\ ModelOf(Collected[k]) = ExcludedModel
           /\ CostField(Collected[k], "prix") = <<FloatValue(5)>>
           /\ ModelOf(Collected[l]) = "gpt-4"
           /\ CostField(Collected[l], "prix") = <<FloatValue(2)>>

\* C22: the displayed total of calculate_total_cost is the sum of the numeric
\* prix of exactly the messages of a model other than 'gemini-2.0-flash-exp';
\* the per-model costs hold the full sum of the excluded model (5.0 of it and
\* 2.0 of gpt-4 give a total of 2.0 and 5.0 for the excluded model); and
\* total_tokens is the sum of the numeric tokens of all the messages.
C22_ExcludedFromTotalOnly ==
    CostReturned
    => /\ DisplayedTotal
              = Float(Total("prix", LAMBDA m : ModelOf(m) # ExcludedModel))
       /\ (\E k \in 1..Len(Collected) :
               /\ ModelOf(Collected[k]) = ExcludedModel
               /\ "type" \notin DOMAIN Get(Get(Collected[k], "metadata",
                                               EmptyDict), "cout", EmptyDict))
          => /\ ExcludedModel \in DOMAIN ModelCosts
             /\ ModelCosts[ExcludedModel]
                    = Float(Total("prix",
                                  LAMBDA m : ModelOf(m) = ExcludedModel))
       /\ TotalTokens = Total("tokens", LAMBDA m : TRUE)
       /\ ExcludedFiveOtherTwo
          => /\ DisplayedTotal = Float(2)
             /\ ModelCosts[ExcludedModel] = Float(5)
             /\ TotalTokens = 17

\* the documented example has been computed
C22_Witness == CostReturned /\ ExcludedFiveOtherTwo

\* the models of the messages whose cout is a dict
CostedModels ==
    {ModelOf(Collected[k]) :
        k \in {l \in 1..Len(Collected) :
                  "type" \notin DOMAIN Get(Get(Collected[l], "metadata",
                                               EmptyDict), "cout", EmptyDict)}}

\* C23: calculate_total_cost never raises on a prix or tokens that is
\* missing or not a number (None, a string): it returns, the value counts
\* for zero in the displayed total, in total_tokens and in the per-model
\* sums, and the other messages are aggregated.
C23_NonNumericCountsZero ==
    Returned("calculate_total_cost")
    => /\ "returned" \in DOMAIN Value
       /\ DisplayedTotal
              = Float(Total("prix", LAMBDA m : ModelOf(m) # ExcludedModel))
       /\ TotalTokens = Total("tokens", LAMBDA m : TRUE)
       /\ DOMAIN ModelCosts = CostedModels
       /\ DOMAIN ModelTokens = CostedModels
       /\ \A model \in CostedModels :
              /\ ModelCosts[model]
                     = Float(Total("prix", LAMBDA m : ModelOf(m) = model))
              /\ ModelTokens[model]
                     = Total("tokens", LAMBDA m : ModelOf(m) = model)

\* every prix and tokens of the collection is a number or is missing
NumericCosts ==
    \A k \in 1..Len(Collected) : \A field \in {"prix", "tokens"} :
        LET v == CostField(Collected[k], field)
        IN  v = <<>> \/ v[1].type \in {"int", "float"}

-----------------------------------------------------------------------------
(* Purity of the aggregators.                                              *)

\* the collection and the criteria are after the step what they were before
InputsUntouched ==
    UNCHANGED <<conversations, date_filter, user_filter, specific_email,
                precise_date, email_pattern>>

\* a call of filter_conversations after an earlier one (which has left the
\* three counters in questions_stats) returns what the earlier one returned
FilterRepeats ==
    (FilterConversations /\ questions_stats # EmptyDict)
    => UNCHANGED <<final_conversations, questions_stats>>

\* a call of the analyser fn right after a call of the same analyser (on the
\* same messages) returns what that call returned
AnalyserRepeats(Call, fn) ==
    (/\ Call
     /\ result.fn = fn
     /\ "messages" \in DOMAIN result => result'.messages = result.messages)
    => result' = result

\* C24: filter_conversations, analyze_conversations,
\* get_conversation_duration_stats, analyze_long_conversations and
\* calculate_total_cost leave the collection they are given unchanged, and a
\* second call with the same snapshot and criteria returns what the first
\* call returned.
C24_PureAggregators ==
    [][/\ InputsUntouched
       /\ FilterRepeats
       /\ AnalyserRepeats(AnalyzeConversations, "analyze_conversations")
       /\ AnalyserRepeats(GetConversationDurationStats,
                          "get_conversation_duration_stats")
       /\ AnalyserRepeats(AnalyzeLongConversations,
                          "analyze_long_conversations")
       /\ AnalyserRepeats(CalculateTotalCost, "calculate_total_cost")]_vars

-----------------------------------------------------------------------------
(* The loader as its caller sees it.                                       *)

\* main holds what its last call of the loader returned
Loaded ==
    /\ pc \in {"call", "done", "stopped"}
    /\ result.fn = "load_conversations_from_firebase"

\* that value stems from a fetch that did not succeed, executed by this call
\* or memoized by an earlier one
FetchFailed == result.origin \in {"unavailable", "failed"}

\* what a successful fetch of a database without conversations returns
ZeroConversations == LoadedConversations(<<>>)

\* C25: after a fetch that failed, what the loader hands to its caller,
\* fresh or served from the memoization, can be told apart from a successful
\* fetch of zero conversations: it is never the empty collection.
C25_FailedFetchIsExplicit ==
    (Loaded /\ FetchFailed) => conversations # ZeroConversations

-----------------------------------------------------------------------------
(* The feedback distribution.                                              *)

\* the characters that stand for the ratings 1 to 5
RatingDigits == <<"1", "2", "3", "4", "5">>

\* the feedback of m is 'rating_' followed by the digit of r and nothing else
IsRating(m, r) ==
    /\ "feedback" \in DOMAIN m
    /\ Len(m["feedback"]) = 8
    /\ SubSeq(m["feedback"], 1, 7) = <<"r", "a", "t", "i", "n", "g", "_">>
    /\ m["feedback"][8] = RatingDigits[r]

\* the positions in the collection of the messages tallied for the rating r:
\* non-blank question, accepted by the role and email rules of the filter,
\* feedback a rating r
TalliedAt(r) ==
    {k \in 1..Len(Collected) :
        /\ ~IsBlank(Collected[k])
        /\ should_include(Collected[k], user_filter, specific_email,
                          email_pattern)
        /\ IsRating(Collected[k], r)}

\* C26: the feedback aggregator counts for the rating r exactly the messages
\* with a non-blank question that pass the role and email rules of the filter
\* and whose feedback is 'rating_' followed by exactly the digit of r, for r
\* from 1 to 5; every other feedback value is counted nowhere; total is the
\* sum of the five counts; a total of zero is reported as 'no feedback',
\* without a mean and a satisfaction ratio being computed.
C26_FeedbackTally ==
    Returned("aggregate_feedback")
    => /\ DOMAIN Value["counts"] = 1..5
       /\ \A r \in 1..5 : Value["counts"][r] = Cardinality(TalliedAt(r))
       /\ Value["total"]
              = Cardinality(UNION {TalliedAt(r) : r \in 1..5})
       /\ Value["total"] = SumInt(Value["counts"])
       /\ Value["total"] = 0
              <=> /\ "report" \in DOMAIN Value
                  /\ Value["report"] = "no feedback"
       /\ Value["total"] = 0
              <=> {"mean", "satisfaction"} \cap DOMAIN Value = {}

\* two ratings are tallied while a rating with a second digit, a rating
\* outside 1..5 or a blank question's rating is in the collection
C26_Witness ==
    /\ Returned("aggregate_feedback")
    /\ Value["total"] = 2
    /\ \E k \in 1..Len(Collected) :
           /\ "feedback" \in DOMAIN Collected[k]
           /\ \A r \in 1..5 : k \notin TalliedAt(r)

-----------------------------------------------------------------------------
(* The role filters and the tally.                                         *)

\* only a role filter is set: no date, no exact email, no pattern
RoleFilterOnly ==
    /\ date_filter = "Toutes"
    /\ precise_date = <<>>
    /\ Strip(specific_email) = EmptyStr
    /\ email_pattern = EmptyStr

\* the number of question-bearing messages of the output
RetainedQuestions ==
    SumInt([i \in 1..Len(final_conversations) |->
               Cardinality({j \in 1..Len(final_conversations[i]["messages"]) :
                               ~IsBlank(final_conversations[i]["messages"][j])})])

\* the question-bearing message m alone is retained under the role filter
RetainedUnder(m, role_filter) ==
    filter_conversations(<<Conversation(1, <<m>>)>>, "Toutes", role_filter,
                         EmptyStr, <<>>, EmptyStr,
                         now).final_conversations # <<>>

\* C27: with only a role filter set, the admin-only filter retains
\* admin_questions question-bearing messages, the user-only filter retains
\* user_questions of them, and every question-bearing message is retained
\* under exactly one of the two filters.
C27_RoleFiltersPartition ==
    (Done /\ result = NoResult /\ RoleFilterOnly /\ conversations # <<>>)
    => /\ user_filter = "Admin (ID: 0)"
              => RetainedQuestions = questions_stats["admin_questions"]
       /\ user_filter = "Utilisateur (ID: 1)"
              => RetainedQuestions = questions_stats["user_questions"]
       /\ \A k \in 1..Len(Collected) :
              ~IsBlank(Collected[k])
              => (RetainedUnder(Collected[k], "Admin (ID: 0)")
                      <=> ~RetainedUnder(Collected[k], "Utilisateur (ID: 1)"))

\* every role of the collection is 0 or 1, stated or by default
RolesZeroOrOne ==
    \A k \in 1..Len(Collected) : msg_user_id(Collected[k]) \in {0, 1}

-----------------------------------------------------------------------------
(* The intervals of the long conversations.                                *)

\* x <= y for two floats
AtMost(x, y) == ~Less(y, x)

-----------------------------------------------------------------------------
(* The two headline cost computations                                      *)

\* every cout of the collection is a dict (or is missing)
DictCosts ==
    \A k \in 1..Len(Collected) :
        IsDict(Get(Get(Collected[k], "metadata", EmptyDict), "cout",
                   EmptyDict))

RECURSIVE SumOfValues(_, _)
\* the sum of the values a dict of costs holds under the given keys
SumOfValues(costs, keys) ==
    IF keys = {} THEN Float(0)
    ELSE LET k == CHOOSE key \in keys : TRUE
         IN  Plus(costs[k], SumOfValues(costs, keys \ {k}))

\* what calculate_total_cost returns on the collection get_model_stats was
\* given
CostOfCollected == calculate_total_cost(conversations)

-----------------------------------------------------------------------------
(* The deletion of the duplicate questions.                                *)

\* the messages of the database the function was called on, in scan order
Scanned == ScanOrder(locals.before)

\* the function has been called
DeleteCalled == "before" \in DOMAIN locals

\* the function has returned
DeleteCompleted == Returned("delete_duplicate_questions_from_firebase")

\* the function has returned from the end of its loop of deletions
DeleteRanThrough == DeleteCompleted /\ locals.scanned

\* the k-th scanned message is still in the database
StillStored(k) ==
    \E i \in 1..Len(firestore) :
        /\ firestore[i].id = Scanned[k].conv_id
        /\ \E j \in 1..Len(firestore[i].messages) :
               firestore[i].messages[j].id = Scanned[k].msg_id

\* the k-th scanned message has a blank question or none
BlankQuestion(k) == NormalizedQuestion(Scanned[k].data) = EmptyStr

\* the k-th scanned message repeats the question of an earlier one
LaterDuplicate(k) ==
    /\ ~BlankQuestion(k)
    /\ \E j \in 1..(k - 1) :
           NormalizedQuestion(Scanned[j].data)
               = NormalizedQuestion(Scanned[k].data)

\* the delete call of the k-th scanned message raised
DeleteFailed(k) ==
    <<Scanned[k].conv_id, Scanned[k].msg_id>> \in locals.failed

\* C30: from the call of delete_duplicate_questions_from_firebase on, the
\* first message of every normalized non-empty question and every message
\* with a blank question stay in the database; and once the function has run
\* through its deletions and returned, every later message with a question
\* met before is deleted unless its own delete call failed, whatever failed
\* before it, and the count returned is the number of messages deleted.
C30_DuplicatesDeleted ==
    DeleteCalled
    => /\ \A k \in 1..Len(Scanned) : ~LaterDuplicate(k) => StillStored(k)
       /\ DeleteCompleted
          => Value = Cardinality({k \in 1..Len(Scanned) : ~StillStored(k)})
       /\ DeleteRanThrough
          => \A k \in 1..Len(Scanned) :
                 LaterDuplicate(k) => (~StillStored(k) \/ DeleteFailed(k))

\* the function has returned 1 after a delete call that failed and a later
\* one that deleted its message
C30_Witness ==
    /\ DeleteRanThrough
    /\ Value = 1
    /\ \E j, k \in 1..Len(Scanned) :
           /\ j < k
           /\ LaterDuplicate(j) /\ DeleteFailed(j) /\ StillStored(j)
           /\ LaterDuplicate(k) /\ ~StillStored(k)
=============================================================================
